---------------------------- MODULE Spec2Model ----------------------------
(***************************************************************************)
(* zapier-graphql: the schema-to-field-mapping and GraphQL document        *)
(* synthesis engine (lib/index.js), its configuration record               *)
(* (lib/Config.js) and the scaffold commands that persist its artifacts.   *)
(*                                                                         *)
(* Strings that the code splits, compares, lower-cases or matches by       *)
(* prefix/suffix (field names and keys) are sequences of one-character     *)
(* strings.  Type names, enum values and scalar labels are only compared   *)
(* for equality or used as map keys and stay TLA+ strings.                 *)
(***************************************************************************)
EXTENDS Integers, Sequences, FiniteSets, TLC

VARIABLES
    cfgFile,      \* the record exported by ./.zapiergraphql (exists: whether it is there)
    api,          \* the schema the GraphQL server answers introspection with
    config,       \* `let config`: the process-wide cached Config
    cachedSchema, \* `let cachedSchema`: the schema once fetched
    entry,        \* the host project's index.js: the operations it registers
    files,        \* the generated files on disk: path -> contents
    last,         \* the last call: its arguments, what it computed, its outcome
    prev,         \* the same for the call before it
    ran,          \* the last execution of a generated perform function
    now           \* the clock (one tick per call)

vars == <<cfgFile, api, config, cachedSchema, entry, files, last, prev, ran, now>>

\* null / undefined where a type name or scalar label is expected
Null == "<null>"

\* null / undefined where a field name is expected (never a legal name)
NoName == <<>>

-----------------------------------------------------------------------------
(* Character strings *)

\* The characters used by field names and keys, in code-unit (ASCII) order.
Alphabet == <<".", "A", "B", "_", "a", "b", "c", "d", "e", "g", "i", "l", "u", "v", "x">>

Ord(c) == CHOOSE i \in 1..Len(Alphabet) : Alphabet[i] = c

\* String.prototype.toLowerCase on one character
LowerChar(c) == CASE c = "A" -> "a" [] c = "B" -> "b" [] OTHER -> c

toLowerCase(s) == [i \in 1..Len(s) |-> LowerChar(s[i])]

\* a < b on JS strings: lexicographic by code unit, a proper prefix is smaller
RECURSIVE StrLess(_, _)
StrLess(a, b) ==
    IF b = <<>> THEN FALSE
    ELSE IF a = <<>> THEN TRUE
    ELSE IF a[1] # b[1] THEN Ord(a[1]) < Ord(b[1])
    ELSE StrLess(Tail(a), Tail(b))

startsWith(s, p) == Len(p) <= Len(s) /\ SubSeq(s, 1, Len(p)) = p

endsWith(s, p) == Len(p) <= Len(s) /\ SubSeq(s, Len(s) - Len(p) + 1, Len(s)) = p

Sep == <<"_", "_">>

\* s.split('__').pop(): the text after the last non-overlapping '__' found
\* scanning left to right (the whole string when there is none)
RECURSIVE SplitPop(_)
SplitPop(s) ==
    IF \E i \in 1..(Len(s) - 1) : SubSeq(s, i, i + 1) = Sep
    THEN LET i == CHOOSE j \in 1..(Len(s) - 1) :
                      /\ SubSeq(s, j, j + 1) = Sep
                      /\ \A k \in 1..(j - 1) : SubSeq(s, k, k + 1) # Sep
         IN SplitPop(SubSeq(s, i + 2, Len(s)))
    ELSE s

-----------------------------------------------------------------------------
(* The GraphQL schema (graphql-js type objects, as buildClientSchema yields) *)

k_id == <<"i", "d">>
k_a == <<"a">>
k_b == <<"b">>
k_c == <<"c">>
k_d == <<"d">>
k_g == <<"g">>
k_x == <<"x">>
k_ab == <<"a", "b">>
k_Ab == <<"A", "b">>
k_x__id == <<"x", "_", "_", "i", "d">>
k_b__a == <<"b", "_", "_", "a">>
k_a__ == <<"a", "_", "_">>

\* A type position: GraphQLNonNull / GraphQLList wrappers, outermost first,
\* around a named type.
T(wraps, name) == [wraps |-> wraps, name |-> name]

\* A field of an object or input-object type, or an argument.  isRequired is
\* not a property of a graphql-js field or argument: reading it gives undefined.
Fld(name, wraps, type) == [name |-> name, type |-> T(wraps, type), isRequired |-> FALSE]

Scalar == [kind |-> "SCALAR", fields |-> <<>>, values |-> <<>>]
Enum(values) == [kind |-> "ENUM", fields |-> <<>>, values |-> values]
Object(fields) == [kind |-> "OBJECT", fields |-> fields, values |-> <<>>]
Input(fields) == [kind |-> "INPUT_OBJECT", fields |-> fields, values |-> <<>>]
Union == [kind |-> "UNION", fields |-> <<>>, values |-> <<>>]

N == "NonNull"
L == "List"

\* The named types of the schema under analysis.  Input objects nest up to
\* four levels (Org > User > Addr > Geo), Cyc refers to itself, Top reaches
\* only objects below its first level, Exo uses legal names that contain or
\* end with '__'; Odd is a custom scalar no scalarMap mentions.
Types ==
    [ String   |-> Scalar, Int |-> Scalar, Float |-> Scalar, Boolean |-> Scalar,
      ID       |-> Scalar, DateTime |-> Scalar, Odd |-> Scalar,
      Color    |-> Enum(<<"RED", "BLUE">>),
      Leaf     |-> Input(<<Fld(k_b, <<>>, "String"), Fld(k_id, <<N>>, "ID"),
                           Fld(k_a, <<L, N>>, "Int")>>),
      Geo      |-> Input(<<Fld(k_c, <<N>>, "Float"), Fld(k_a, <<>>, "Float")>>),
      Addr     |-> Input(<<Fld(k_d, <<>>, "String"), Fld(k_g, <<>>, "Geo"),
                           Fld(k_id, <<>>, "ID"), Fld(k_c, <<N>>, "Color")>>),
      User     |-> Input(<<Fld(k_b, <<N>>, "String"), Fld(k_x, <<N>>, "Addr"),
                           Fld(k_ab, <<L>>, "DateTime")>>),
      Org      |-> Input(<<Fld(k_g, <<>>, "User"), Fld(k_a, <<>>, "String")>>),
      Cyc      |-> Input(<<Fld(k_x, <<>>, "Cyc"), Fld(k_a, <<>>, "Int")>>),
      Hub      |-> Input(<<Fld(k_g, <<N, L, N>>, "Geo")>>),
      Top      |-> Input(<<Fld(k_x, <<>>, "Hub"), Fld(k_a, <<>>, "Boolean")>>),
      Bad      |-> Input(<<Fld(k_a, <<>>, "String"), Fld(k_b, <<>>, "Odd")>>),
      Exo      |-> Input(<<Fld(k_b, <<>>, "String"), Fld(k_x__id, <<>>, "ID"),
                           Fld(k_a__, <<>>, "Int"), Fld(k_Ab, <<>>, "Boolean"),
                           Fld(k_a, <<>>, "Int")>>),
      Dragon   |-> Object(<<Fld(k_b, <<>>, "String"), Fld(k_id, <<N>>, "ID"),
                            Fld(k_g, <<>>, "Usr"), Fld(k_a, <<L>>, "Int"),
                            Fld(k_c, <<>>, "Color"), Fld(k_d, <<>>, "DateTime")>>),
      Usr      |-> Object(<<Fld(k_b, <<>>, "Float"), Fld(k_ab, <<N>>, "String"),
                            Fld(k_x, <<>>, "Pet"), Fld(k_a, <<>>, "Boolean")>>),
      Rel      |-> Object(<<Fld(k_g, <<>>, "Dragon"), Fld(k_x, <<L>>, "Usr")>>),
      Odds     |-> Object(<<Fld(k_a, <<>>, "Int"), Fld(k_b, <<>>, "Odd")>>),
      Exotic   |-> Object(<<Fld(k_ab, <<>>, "String"), Fld(k_b__a, <<>>, "Int"),
                            Fld(k_x__id, <<>>, "ID"), Fld(k_a, <<>>, "String")>>),
      Pet      |-> Union ]

TypeNames == DOMAIN Types

\* t instanceof GraphQLScalarType, ... for the type the schema names `name`
instanceof(name, kind) == name \in DOMAIN api.types /\ api.types[name].kind = kind

-----------------------------------------------------------------------------
(* JS values and objects *)

\* A JS value that ends up in sample data: a primitive (its type and its
\* literal text) or a nested object.
Val(t, v) == [t |-> t, v |-> v, sub |-> <<>>]
Obj(pairs) == [t |-> "object", v |-> "", sub |-> pairs]

\* null and undefined where a value is read
JSNull == Val("null", "null")

\* JS truthiness of a value
Truthy(v) == v.t = "object" \/ v.v \notin {"", "0", "false", "null"}

\* An insertion-ordered JS object: a sequence of [k, val] with distinct k.
HasKey(o, k) == \E i \in 1..Len(o) : o[i].k = k

\* o[k]
Get(o, k) == IF HasKey(o, k) THEN o[CHOOSE i \in 1..Len(o) : o[i].k = k].val ELSE JSNull

\* o[k] = v: an existing key keeps its position, a new one goes last
Put(o, k, v) ==
    IF HasKey(o, k) THEN [i \in 1..Len(o) |-> IF o[i].k = k THEN [k |-> k, val |-> v] ELSE o[i]]
    ELSE Append(o, [k |-> k, val |-> v])

\* scalarMap[k]: the label, Null when there is none
Lookup(m, k) == IF k \in DOMAIN m THEN m[k] ELSE Null

\* idMap[k] is truthy: a non-empty source field name is mapped
Mapped(m, k) == k \in DOMAIN m /\ m[k] # <<>>

-----------------------------------------------------------------------------
(* Rendering of values into the text of a generated file *)

\* A rendered value, white space left out: an object literal (its keys and
\* their rendered values), a quoted string literal, an expression that is
\* evaluated when the file is loaded, or the text of a number or boolean.
Rendered(kind, text, sub) == [kind |-> kind, text |-> text, sub |-> sub]
NoText == Rendered("none", "", <<>>)

\* stringifyObject(input, indentation): the sentinel string becomes the
\* expression, any other string its JSON literal
RECURSIVE stringifyObject(_, _)
stringifyObject(input, indentation) ==
    IF input.t = "object"
    THEN Rendered("object", "",
             [i \in 1..Len(input.sub) |->
                  [k |-> input.sub[i].k, val |-> stringifyObject(input.sub[i].val, indentation)]])
    ELSE IF input = Val("string", "CURRENT_TIMESTAMP")
    THEN Rendered("expression", "new Date().toISOString()", <<>>)
    ELSE IF input.t = "string"
    THEN Rendered("string", input.v, <<>>)
    ELSE Rendered("raw", input.v, <<>>)

\* JSON.stringify(value, null, 2): every string is rendered as its literal
RECURSIVE JSON_stringify(_)
JSON_stringify(value) ==
    IF value.t = "object"
    THEN Rendered("object", "",
             [i \in 1..Len(value.sub) |->
                  [k |-> value.sub[i].k, val |-> JSON_stringify(value.sub[i].val)]])
    ELSE IF value.t = "string"
    THEN Rendered("string", value.v, <<>>)
    ELSE Rendered("raw", value.v, <<>>)

-----------------------------------------------------------------------------
(* lib/Config.js *)

\* Object.entries(o).reduce((acc, [key, value]) => { acc[key.toLowerCase()] = value; ... }, {})
RECURSIVE LowerKeys(_, _)
LowerKeys(o, acc) ==
    IF o = <<>> THEN acc
    ELSE LowerKeys(Tail(o), Put(acc, toLowerCase(o[1].k), o[1].val))

\* new Config(file): the defaults of the destructuring are filled in by the
\* config files below, which give every directive.
NewConfig(file) ==
    [ loaded |-> TRUE,
      request |-> [urlEnvVar |-> file.request.urlEnvVar],
      scalarMap |-> file.scalarMap,
      idMap |-> file.idMap,
      sortFields |-> file.sortFields,
      sampleFieldValues |->
          [ exact |-> file.sampleFieldValues.exact,
            startingWith |-> LowerKeys(file.sampleFieldValues.startingWith, <<>>),
            endingWith |-> LowerKeys(file.sampleFieldValues.endingWith, <<>>) ],
      testBundle |-> file.testBundle ]

\* getConfig(): the cached record, else the one built from ./.zapiergraphql.
\* `config` is assigned before request.urlEnvVar is validated.
NoConfig == [loaded |-> FALSE]

ConfigLoaded ==
    IF config.loaded THEN config
    ELSE IF ~cfgFile.exists THEN NoConfig
    ELSE NewConfig(cfgFile)

getConfig ==
    IF config.loaded THEN [ok |-> TRUE, val |-> config]
    ELSE IF ~cfgFile.exists
    THEN [ok |-> FALSE, msg |-> "No .zapiergraphql config file found in project root",
          arg |-> "", key |-> <<>>]
    ELSE IF ConfigLoaded.request.urlEnvVar = ""
    THEN [ok |-> FALSE, msg |-> "GraphQL service not configured", arg |-> "", key |-> <<>>]
    ELSE [ok |-> TRUE, val |-> ConfigLoaded]

\* The record the core reads once getConfig() has returned
Cfg == ConfigLoaded

-----------------------------------------------------------------------------
(* Type Descriptor Resolver *)

\* A thrown Error: its message and the name interpolated into it
\* (arg: a type name or other plain text; key: a field key)
Throw(msg, arg) == [ok |-> FALSE, msg |-> msg, arg |-> arg, key |-> <<>>]
ThrowKey(msg, key) == [ok |-> FALSE, msg |-> msg, arg |-> "", key |-> key]

\* Variant that substitutes 'string' for a scalar the map does not mention
determineScalarType_Fallback(name) ==
    IF instanceof(name, "SCALAR")
    THEN LET scalarType == Lookup(Cfg.scalarMap, name)
         IN [ok |-> TRUE, val |-> IF scalarType \in {Null, ""} THEN "string" ELSE scalarType]
    ELSE IF instanceof(name, "ENUM")
    THEN [ok |-> TRUE, val |-> "string"]
    ELSE [ok |-> TRUE, val |-> Null]

\* determineScalarType(t) for a named type t (a wrapper is neither a
\* GraphQLScalarType nor a GraphQLEnumType and yields null)
determineScalarType(name) ==
    IF instanceof(name, "SCALAR")
    THEN LET scalarType == Lookup(Cfg.scalarMap, name)
         IN IF scalarType \in {Null, ""}
            THEN Throw("Unable to determine scalar type for", name)
            ELSE [ok |-> TRUE, val |-> scalarType]
    ELSE IF instanceof(name, "ENUM")
    THEN [ok |-> TRUE, val |-> "string"]
    ELSE [ok |-> TRUE, val |-> Null]

\* inferTypeDetails(t): one layer per call, the accumulators in acc
RECURSIVE inferTypeDetails(_, _)

\* the innermost layer, scalarType being what determineScalarType gave
inferTypeDetails_Named(t, acc, scalarType) ==
    IF ~scalarType.ok THEN scalarType
    ELSE [acc EXCEPT !.typeName = t.name,
                     !.type = t.name,
                     !.scalarType = scalarType.val,
                     !.enumValues = IF Len(@) > 0 THEN @
                                    ELSE IF instanceof(t.name, "ENUM")
                                    THEN api.types[t.name].values
                                    ELSE <<>>]

inferTypeDetails(t, acc) ==
    IF t.wraps # <<>>
    THEN inferTypeDetails([t EXCEPT !.wraps = Tail(@)],
             [acc EXCEPT !.scalarType = Null,
                         !.isList = @ \/ Head(t.wraps) = L,
                         !.isRequired = @ \/ Head(t.wraps) = N])
    ELSE inferTypeDetails_Named(t, acc,
             IF acc.scalarType # Null
             THEN [ok |-> TRUE, val |-> acc.scalarType]
             ELSE determineScalarType(t.name))

\* the check that follows inferTypeDetails(outerType) in getTypeDetails
getTypeDetails_Checked(r) ==
    IF ~r.ok THEN r
    ELSE IF r.type = Null \/ r.typeName = Null
    THEN Throw("Unable to determine type details for", "null")
    ELSE r

getTypeDetails(outerType, fieldName) ==
    getTypeDetails_Checked(
        inferTypeDetails(outerType,
            [ok |-> TRUE, fieldName |-> fieldName, typeName |-> Null, type |-> Null,
             scalarType |-> Null, isList |-> FALSE, isRequired |-> FALSE,
             enumValues |-> <<>>, children |-> <<>>]))

-----------------------------------------------------------------------------
(* Child Expansion Resolver *)

\* children is an Array given named properties: its length stays 0 and
\* Object.entries lists the properties in declaration order.
RECURSIVE getTypeDetailsWithChildren(_, _, _), ExpandChildren(_, _, _, _),
          ExpandChildren_Set(_, _, _, _, _), getTypeDetailsWithChildren_Of(_, _, _)

\* f[1].type.ofType when f[1].type is a GraphQLList, else f[1].type
ofTypeIfList(type) ==
    IF type.wraps # <<>> /\ Head(type.wraps) = L THEN [type EXCEPT !.wraps = Tail(@)] ELSE type

\* children[f[0]] = r
ExpandChildren_Set(fields, fieldName, depth, children, r) ==
    IF ~r.ok THEN r
    ELSE ExpandChildren(Tail(fields), fieldName, depth, Put(children, Head(fields).name, r))

\* fields.forEach((f) => {...})
ExpandChildren(fields, fieldName, depth, children) ==
    IF fields = <<>> THEN [ok |-> TRUE, val |-> children]
    ELSE ExpandChildren_Set(fields, fieldName, depth, children,
             getTypeDetailsWithChildren(ofTypeIfList(Head(fields).type), fieldName, depth))

\* typeDetails.children = children
getTypeDetailsWithChildren_Children(typeDetails, children) ==
    IF ~children.ok THEN children ELSE [typeDetails EXCEPT !.children = children.val]

\* Variant that never expands the fields of a type
getTypeDetailsWithChildren_Unexpanded(typeDetails, fieldName, depth) == typeDetails

\* the statements after `let typeDetails = getTypeDetails(outerType, fieldName)`
getTypeDetailsWithChildren_Of(typeDetails, fieldName, depth) ==
    IF ~typeDetails.ok THEN typeDetails
    ELSE IF depth > 1 THEN typeDetails
    ELSE IF instanceof(typeDetails.type, "OBJECT") \/ instanceof(typeDetails.type, "INPUT_OBJECT")
    THEN getTypeDetailsWithChildren_Children(typeDetails,
             ExpandChildren(api.types[typeDetails.type].fields, fieldName, depth + 1, <<>>))
    ELSE typeDetails

getTypeDetailsWithChildren(outerType, fieldName, depth) ==
    getTypeDetailsWithChildren_Of(getTypeDetails(outerType, fieldName), fieldName, depth)

-----------------------------------------------------------------------------
(* Field Sorter *)

\* The comparator of sortInputFields
compareInputKeys(aKey, bKey) ==
    IF aKey = <<>> \/ bKey = <<>> THEN 0
    ELSE IF aKey = k_id THEN -1
    ELSE IF bKey = k_id THEN 1
    ELSE IF StrLess(aKey, bKey) THEN -1 ELSE 1

compareInputFields(fa, fb) == compareInputKeys(SplitPop(fa.key), SplitPop(fb.key))

\* The comparator of sortOutputFields
compareOutputFields(fa, fb) ==
    IF fa.key = k_id THEN -1
    ELSE IF fb.key = k_id THEN 1
    ELSE IF StrLess(fa.key, fb.key) THEN -1 ELSE 1

Compare(which, fa, fb) ==
    IF which = "input" THEN compareInputFields(fa, fb) ELSE compareOutputFields(fa, fb)

\* Array.prototype.sort(comparefn) as Node's engine runs it on fewer than 64
\* elements: find the leading run (reversing a strictly descending one), then
\* binary-insert every later element.
RECURSIVE RunEnd(_, _, _, _), RunEnd_Order(_, _, _, _, _)
RunEnd_Order(s, which, desc, i, order) ==
    IF (desc /\ order >= 0) \/ (~desc /\ order < 0) THEN i - 1
    ELSE RunEnd(s, which, desc, i + 1)

RunEnd(s, which, desc, i) ==
    IF i > Len(s) THEN i - 1
    ELSE RunEnd_Order(s, which, desc, i, Compare(which, s[i], s[i - 1]))

Reverse(s) == [i \in 1..Len(s) |-> s[Len(s) + 1 - i]]

RECURSIVE InsertionPoint(_, _, _, _, _)
InsertionPoint(s, which, pivot, left, right) ==
    IF left >= right THEN left
    ELSE LET mid == left + ((right - left) \div 2)
         IN IF Compare(which, pivot, s[mid]) < 0
            THEN InsertionPoint(s, which, pivot, left, mid)
            ELSE InsertionPoint(s, which, pivot, mid + 1, right)

RECURSIVE BinaryInsertionSort(_, _, _), BinaryInsertionSort_At(_, _, _, _)
BinaryInsertionSort_At(s, which, start, left) ==
    BinaryInsertionSort(
        SubSeq(s, 1, left - 1) \o <<s[start]>> \o SubSeq(s, left, start - 1)
            \o SubSeq(s, start + 1, Len(s)),
        which, start + 1)

BinaryInsertionSort(s, which, start) ==
    IF start > Len(s) THEN s
    ELSE BinaryInsertionSort_At(s, which, start, InsertionPoint(s, which, s[start], 1, start))

ArraySort_Run(s, which, desc, run) ==
    BinaryInsertionSort(
        IF desc THEN Reverse(SubSeq(s, 1, run)) \o SubSeq(s, run + 1, Len(s)) ELSE s,
        which, run + 1)

ArraySort_From(s, which, desc) == ArraySort_Run(s, which, desc, RunEnd(s, which, desc, 3))

ArraySort(s, which) ==
    IF Len(s) < 2 THEN s ELSE ArraySort_From(s, which, Compare(which, s[2], s[1]) < 0)

\* Variant that leaves the fields as they are
sortInputFields_Unsorted(fields) == fields

sortInputFields(fields) == IF ~Cfg.sortFields THEN fields ELSE ArraySort(fields, "input")

sortOutputFields(fields) == IF ~Cfg.sortFields THEN fields ELSE ArraySort(fields, "output")

-----------------------------------------------------------------------------
(* Field Model Builder: input fields *)

\* new InputField({...}): a property that is not given is Null (type), NoName
\* (field) or empty (choices, children; the code never stores an empty array
\* there).
InputField(key, field, type, required, choices, children) ==
    [key |-> key, field |-> field, type |-> type, required |-> required,
     choices |-> choices, children |-> children]

\* fieldDepth.join('.')
RECURSIVE JoinDot(_)
JoinDot(parts) ==
    IF parts = <<>> THEN <<>>
    ELSE IF Len(parts) = 1 THEN parts[1]
    ELSE parts[1] \o <<".">> \o JoinDot(Tail(parts))

\* .length of the Array that getTypeDetailsWithChildren filled through named
\* properties only
NamedPropsArrayLength(children) == 0

RECURSIVE getInputFields(_, _, _), getInputFieldChildren(_, _, _),
          buildInputFields(_, _, _, _), PushChildren(_, _, _, _, _),
          PushChildren_Spread(_, _, _, _, _, _), buildInputFields_Field(_, _, _, _, _),
          buildInputFields_Parent(_, _, _, _, _, _)

\* children.push(...r)
PushChildren_Spread(entries, typeDetails, forGQL, fieldDepth, children, r) ==
    IF ~r.ok THEN r
    ELSE PushChildren(Tail(entries), typeDetails, forGQL, fieldDepth, children \o r.val)

\* the for loop of getInputFieldChildren over Object.entries(typeDetails.children)
PushChildren(entries, typeDetails, forGQL, fieldDepth, children) ==
    IF entries = <<>> THEN [ok |-> TRUE, val |-> children]
    ELSE IF Len(fieldDepth) > 1 THEN [ok |-> TRUE, val |-> <<>>]
    ELSE PushChildren_Spread(entries, typeDetails, forGQL, fieldDepth, children,
             getInputFields(
                 << [name |-> entries[1].k,
                     type |-> T(<<>>, entries[1].val.type),
                     isRequired |-> entries[1].val.isRequired] >>,
                 forGQL,
                 Append(fieldDepth,
                        IF NamedPropsArrayLength(entries[1].val.children) # 0 THEN NoName
                        ELSE typeDetails.fieldName)))

getInputFieldChildren(typeDetails, forGQL, fieldDepth) ==
    PushChildren(typeDetails.children, typeDetails, forGQL, fieldDepth, <<>>)

\* the branch of a field with children, ch being what getInputFieldChildren gave
buildInputFields_Parent(fields, forGQL, fieldDepth, inputFields, typeDetails, ch) ==
    IF ~ch.ok THEN ch
    ELSE IF Len(fieldDepth) > 1
    THEN buildInputFields(Tail(fields), forGQL, fieldDepth, inputFields)
    ELSE buildInputFields(Tail(fields), forGQL, fieldDepth,
             Append(inputFields, InputField(
                 (IF Len(fieldDepth) > 1
                  THEN JoinDot(fieldDepth) \o <<".">> ELSE <<>>)
                     \o typeDetails.fieldName,
                 IF forGQL THEN typeDetails.fieldName ELSE NoName,
                 Null,
                 Head(fields).isRequired \/ typeDetails.isRequired,
                 typeDetails.enumValues,
                 sortInputFields(ch.val))))

\* the body of the for loop, typeDetails being what getTypeDetailsWithChildren gave
buildInputFields_Field(fields, forGQL, fieldDepth, inputFields, typeDetails) ==
    IF ~typeDetails.ok THEN typeDetails
    ELSE IF Len(typeDetails.children) = 0
    THEN buildInputFields(Tail(fields), forGQL, fieldDepth,
             Append(inputFields, InputField(
                 (IF Len(fieldDepth) > 1
                  THEN fieldDepth[Len(fieldDepth)] \o Sep ELSE <<>>)
                     \o typeDetails.fieldName,
                 IF forGQL THEN typeDetails.fieldName ELSE NoName,
                 typeDetails.scalarType,
                 Head(fields).isRequired \/ typeDetails.isRequired,
                 typeDetails.enumValues,
                 <<>>)))
    ELSE buildInputFields_Parent(fields, forGQL, fieldDepth, inputFields, typeDetails,
             getInputFieldChildren(typeDetails, forGQL, fieldDepth))

\* the for loop of buildInputFields
buildInputFields(fields, forGQL, fieldDepth, inputFields) ==
    IF fields = <<>> THEN [ok |-> TRUE, val |-> inputFields]
    ELSE buildInputFields_Field(fields, forGQL, fieldDepth, inputFields,
             getTypeDetailsWithChildren(Head(fields).type, Head(fields).name, 0))

\* return sortInputFields(inputFields)
getInputFields_Sorted(r) == IF ~r.ok THEN r ELSE [ok |-> TRUE, val |-> sortInputFields(r.val)]

getInputFields(fields, forGQL, fieldDepth) ==
    IF Len(fields) = 0 THEN [ok |-> TRUE, val |-> <<>>]
    ELSE getInputFields_Sorted(buildInputFields(fields, forGQL, fieldDepth, <<>>))

\* Variant that keeps the wrapping argument
getInputFieldsFlattened_Unflattened(fields) == getInputFields(fields, FALSE, <<>>)

\* the statements after `const inputFields = getInputFields(fields)`
getInputFieldsFlattened_Of(r) ==
    IF ~r.ok THEN r
    ELSE IF Len(r.val) = 1 /\ Len(r.val[1].children) > 0
    THEN [ok |-> TRUE, val |-> r.val[1].children]
    ELSE r

\* getInputFieldsFlattened(fields)
getInputFieldsFlattened(fields) == getInputFieldsFlattened_Of(getInputFields(fields, FALSE, <<>>))

-----------------------------------------------------------------------------
(* Field Model Builder: output fields *)

k_value == <<"v", "a", "l", "u", "e">>

\* new OutputField({...}); reading .children of one gives undefined (empty here)
OutputField(key, type, choices) ==
    [key |-> key, type |-> type, choices |-> choices, children |-> <<>>]

\* typeof type.getFields === 'function'
HasGetFields(type) == instanceof(type, "OBJECT") \/ instanceof(type, "INPUT_OBJECT")

\* Variant that keeps relational fields
RECURSIVE PushOutputFields_Relational(_, _)
PushOutputFields_Relational(fields, outputFields) ==
    IF fields = <<>> THEN [ok |-> TRUE, val |-> outputFields]
    ELSE LET typeDetails == getTypeDetails(Head(fields).type, Head(fields).name)
         IN IF ~typeDetails.ok THEN typeDetails
            ELSE PushOutputFields_Relational(Tail(fields),
                     Append(outputFields,
                            OutputField(typeDetails.fieldName, typeDetails.scalarType,
                                        typeDetails.enumValues)))

\* the for loop of getOutputFields over Object.entries(type.getFields())
RECURSIVE PushOutputFields(_, _), PushOutputFields_Field(_, _, _)

\* the body of the loop, typeDetails being what getTypeDetails gave
PushOutputFields_Field(fields, outputFields, typeDetails) ==
    IF ~typeDetails.ok THEN typeDetails
    ELSE IF typeDetails.scalarType = Null
    THEN PushOutputFields(Tail(fields), outputFields)
    ELSE IF typeDetails.fieldName = NoName
    THEN Throw("Unable to determine field name for", typeDetails.typeName)
    ELSE PushOutputFields(Tail(fields),
             Append(outputFields,
                    OutputField(typeDetails.fieldName, typeDetails.scalarType,
                                typeDetails.enumValues)))

PushOutputFields(fields, outputFields) ==
    IF fields = <<>> THEN [ok |-> TRUE, val |-> outputFields]
    ELSE PushOutputFields_Field(fields, outputFields,
             getTypeDetails(Head(fields).type, Head(fields).name))

\* the branch of a type without getFields
getOutputFields_Scalar(type, typeDetails) ==
    IF ~typeDetails.ok THEN typeDetails
    ELSE IF typeDetails.scalarType = Null
    THEN Throw("Unable to handle scalar type for", type)
    ELSE [ok |-> TRUE,
          val |-> <<OutputField(IF typeDetails.typeName = "ID" THEN k_id ELSE k_value,
                                typeDetails.scalarType, typeDetails.enumValues)>>]

\* Variant that adds the synthetic id without looking for an 'id' field
getOutputFields_AlwaysId(type, forGQL, r) ==
    IF ~r.ok THEN r
    ELSE [ok |-> TRUE,
          val |-> sortOutputFields(
                      IF ~forGQL /\ Mapped(Cfg.idMap, type)
                      THEN Append(r.val, OutputField(k_id, "string", <<>>))
                      ELSE r.val)]

\* the statements after the for loop: the synthetic id, the sort
getOutputFields_Object(type, forGQL, r) ==
    IF ~r.ok THEN r
    ELSE [ok |-> TRUE,
          val |-> sortOutputFields(
                      IF ~forGQL /\ Mapped(Cfg.idMap, type)
                         /\ ~\E i \in 1..Len(r.val) : r.val[i].key = k_id
                      THEN Append(r.val, OutputField(k_id, "string", <<>>))
                      ELSE r.val)]

\* getOutputFields(type, forGQL): type is the innermost named return type
getOutputFields(type, forGQL) ==
    IF ~HasGetFields(type)
    THEN getOutputFields_Scalar(type, getTypeDetails(T(<<>>, type), NoName))
    ELSE getOutputFields_Object(type, forGQL, PushOutputFields(api.types[type].fields, <<>>))

-----------------------------------------------------------------------------
(* Operation Document Synthesizer *)

\* The document is kept as its lines, each line as its indentation (in
\* spaces) and its tokens.
Tok(t, word, name, path, dflt) ==
    [t |-> t, word |-> word, name |-> name, path |-> path, dflt |-> dflt]
Word(w) == Tok("word", w, <<>>, <<>>, FALSE)          \* query / mutation
Operation(w) == Tok("operation", w, <<>>, <<>>, FALSE) \* the operation's name
Punct(w) == Tok("punct", w, <<>>, <<>>, FALSE)         \* { } ( ) :
Name(n) == Tok("name", "", n, <<>>, FALSE)             \* a field name
\* ${quote(inputData.<path, dot-joined>)} or ${quote(inputData.<path> ?? null)}
Placeholder(path, dflt) == Tok("placeholder", "", <<>>, path, dflt)

Line(indent, toks) == [indent |-> indent, toks |-> toks]

\* Variant that prefixes the lookup with the whole chain of ancestors
buildGQLField_FullPath(field, fieldDepth) ==
    IF field.field = NoName
    THEN ThrowKey("Unable to build GQL field for", field.key)
    ELSE [ok |-> TRUE,
          val |-> <<Line(2 * (IF Len(fieldDepth) > 0 THEN Len(fieldDepth) + 2 ELSE 2),
                         <<Name(field.field), Punct(":"),
                           Placeholder(fieldDepth \o <<field.key>>, ~field.required)>>)>>]

\* buildGQLField(field, fieldDepth)
buildGQLField(field, fieldDepth) ==
    IF field.field = NoName
    THEN ThrowKey("Unable to build GQL field for", field.key)
    ELSE [ok |-> TRUE,
          val |-> <<Line(2 * (IF Len(fieldDepth) > 0 THEN Len(fieldDepth) + 2 ELSE 2),
                         <<Name(field.field), Punct(":"),
                           Placeholder(IF Len(fieldDepth) > 1
                                       THEN <<fieldDepth[Len(fieldDepth)], field.key>>
                                       ELSE <<field.key>>,
                                       ~field.required)>>)>>]

\* buildGQLFields(fields, fieldDepth), the mapped strings joined by '\n'
RECURSIVE buildGQLFields(_, _)

\* `${field.field}: {` + the children's lines + `}`
buildGQLFields_Group(field, depth, inner) ==
    IF ~inner.ok THEN inner
    ELSE [ok |-> TRUE,
          val |-> <<Line(2 * (Len(depth) + 1),
                         <<Name(field.field), Punct(":"), Punct("{")>>)>>
                  \o inner.val
                  \o <<Line(2 * (Len(depth) + 1), <<Punct("}")>>)>>]

\* .join('\n') of one field's lines and the later fields' lines
buildGQLFields_Join(one, rest) ==
    IF ~one.ok THEN one
    ELSE IF ~rest.ok THEN rest
    ELSE [ok |-> TRUE, val |-> one.val \o rest.val]

buildGQLFields(fields, fieldDepth) ==
    IF fields = <<>> THEN [ok |-> TRUE, val |-> <<>>]
    ELSE buildGQLFields_Join(
             IF Len(Head(fields).children) > 0
             THEN buildGQLFields_Group(Head(fields), Append(fieldDepth, Head(fields).key),
                      buildGQLFields(Head(fields).children,
                                     Append(fieldDepth, Head(fields).key)))
             ELSE buildGQLField(Head(fields), fieldDepth),
             buildGQLFields(Tail(fields), fieldDepth))

\* Variant that writes the parentheses whether or not there are input fields
buildGQL_AlwaysArguments(queryOrMutation, operation, inputFields, outputFields, args) ==
    IF ~args.ok THEN args
    ELSE [ok |-> TRUE,
          val |-> <<Line(0, <<Word(queryOrMutation), Punct("{")>>)>>
                  \o <<Line(2, <<Operation(operation), Punct("(")>>)>>
                  \o args.val
                  \o <<Line(2, <<Punct(")"), Punct("{")>>)>>
                  \o (IF Len(outputFields) = 0 THEN <<Line(4, <<>>)>>
                      ELSE [i \in 1..Len(outputFields) |->
                                Line(4, <<Name(outputFields[i].key)>>)])
                  \o <<Line(2, <<Punct("}")>>), Line(0, <<Punct("}")>>)>>]

\* the template literal of buildGQL, args being what buildGQLFields gave
buildGQL_Document(queryOrMutation, operation, inputFields, outputFields, args) ==
    IF Len(inputFields) > 0 /\ ~args.ok THEN args
    ELSE [ok |-> TRUE,
          val |-> <<Line(0, <<Word(queryOrMutation), Punct("{")>>)>>
                  \o (IF Len(inputFields) > 0
                      THEN <<Line(2, <<Operation(operation), Punct("(")>>)>>
                           \o args.val
                           \o <<Line(2, <<Punct(")"), Punct("{")>>)>>
                      ELSE <<Line(2, <<Operation(operation), Punct("{")>>)>>)
                  \o (IF Len(outputFields) = 0 THEN <<Line(4, <<>>)>>
                      ELSE [i \in 1..Len(outputFields) |->
                                Line(4, <<Name(outputFields[i].key)>>)])
                  \o <<Line(2, <<Punct("}")>>), Line(0, <<Punct("}")>>)>>]

\* buildGQL(queryOrMutation, operation, inputFields, outputFields)
buildGQL(queryOrMutation, operation, inputFields, outputFields) ==
    IF queryOrMutation \notin {"query", "mutation"}
    THEN Throw("Must be 'query' or 'mutation', not", queryOrMutation)
    ELSE buildGQL_Document(queryOrMutation, operation, inputFields, outputFields,
                           buildGQLFields(inputFields, <<>>))

-----------------------------------------------------------------------------
(* Sample Data Synthesizer *)

\* the last entry of a configured map whose key k satisfies Match(key, k):
\* the forEach assigns returnValue at every match
RECURSIVE LastPrefix(_, _, _)
LastPrefix(entries, key, returnValue) ==
    IF entries = <<>> THEN returnValue
    ELSE LastPrefix(Tail(entries), key,
                    IF startsWith(toLowerCase(key), entries[1].k)
                    THEN entries[1].val ELSE returnValue)

RECURSIVE LastSuffix(_, _, _)
LastSuffix(entries, key, returnValue) ==
    IF entries = <<>> THEN returnValue
    ELSE LastSuffix(Tail(entries), key,
                    IF endsWith(toLowerCase(key), entries[1].k)
                    THEN entries[1].val ELSE returnValue)

\* Variant in which a matching prefix is preferred to a matching suffix
getConfiguredValue_PrefixFirst(field) ==
    IF Len(field.children) > 0 THEN JSNull
    ELSE LET sampleFieldValues == Cfg.sampleFieldValues
         IN IF Truthy(Get(sampleFieldValues.exact, field.key))
            THEN Get(sampleFieldValues.exact, field.key)
            ELSE LastPrefix(sampleFieldValues.startingWith, field.key,
                            LastSuffix(sampleFieldValues.endingWith, field.key, JSNull))

\* the lookups of getConfiguredValue in the configured sampleFieldValues
getConfiguredValue_In(sampleFieldValues, field) ==
    IF Truthy(Get(sampleFieldValues.exact, field.key))
    THEN Get(sampleFieldValues.exact, field.key)
    ELSE LastSuffix(sampleFieldValues.endingWith, field.key,
                    LastPrefix(sampleFieldValues.startingWith, field.key, JSNull))

\* getConfiguredValue(field)
getConfiguredValue(field) ==
    IF Len(field.children) > 0 THEN JSNull
    ELSE getConfiguredValue_In(Cfg.sampleFieldValues, field)

RECURSIVE createSamples(_), getSampleValue(_), SampleEach(_, _),
          SampleEach_Configured(_, _, _), SampleEach_Default(_, _, _)

\* samples = an object of the children's samples
getSampleValue_Object(r) == IF ~r.ok THEN r ELSE [ok |-> TRUE, val |-> Obj(r.val)]

\* getSampleValue(field)
getSampleValue(field) ==
    IF Len(field.children) > 0
    THEN getSampleValue_Object(createSamples(field.children))
    ELSE CASE field.type = "string" ->
                  [ok |-> TRUE,
                   val |-> IF field.key = k_id THEN Val("string", "1")
                           ELSE Val("string", "Something")]
           [] field.type = "number" -> [ok |-> TRUE, val |-> Val("number", "1")]
           [] field.type = "integer" -> [ok |-> TRUE, val |-> Val("number", "1")]
           [] field.type = "boolean" -> [ok |-> TRUE, val |-> Val("boolean", "true")]
           [] field.type = "datetime" ->
                  [ok |-> TRUE, val |-> Val("string", "CURRENT_TIMESTAMP")]
           [] OTHER -> ThrowKey("Unable to create sample data for", field.key)

\* samples[field.key] = getSampleValue(field)
SampleEach_Default(fields, samples, v) ==
    IF ~v.ok THEN v
    ELSE SampleEach(Tail(fields), Put(samples, Head(fields).key, v.val))

\* samples[field.key] = getConfiguredValue(field) ?? getSampleValue(field)
SampleEach_Configured(fields, samples, configured) ==
    IF configured # JSNull
    THEN SampleEach(Tail(fields), Put(samples, Head(fields).key, configured))
    ELSE SampleEach_Default(fields, samples, getSampleValue(Head(fields)))

\* Variant in which a configured value is preferred to the first choice
SampleEach_ConfiguredFirst(fields, samples) ==
    IF fields = <<>> THEN [ok |-> TRUE, val |-> samples]
    ELSE IF Truthy(Get(samples, Head(fields).key))
    THEN SampleEach(Tail(fields), samples)
    ELSE IF getConfiguredValue(Head(fields)) = JSNull /\ Len(Head(fields).choices) > 0
    THEN SampleEach(Tail(fields),
                    Put(samples, Head(fields).key, Val("string", Head(fields).choices[1])))
    ELSE SampleEach_Configured(fields, samples, getConfiguredValue(Head(fields)))

\* the for loop of createSamples
SampleEach(fields, samples) ==
    IF fields = <<>> THEN [ok |-> TRUE, val |-> samples]
    ELSE IF Truthy(Get(samples, Head(fields).key))
    THEN SampleEach(Tail(fields), samples)
    ELSE IF Len(Head(fields).choices) > 0
    THEN SampleEach(Tail(fields),
                    Put(samples, Head(fields).key, Val("string", Head(fields).choices[1])))
    ELSE SampleEach_Configured(fields, samples, getConfiguredValue(Head(fields)))

createSamples(fields) == SampleEach(fields, <<>>)

-----------------------------------------------------------------------------
(* Schema access *)

\* makeRequest / getSchema: the cached schema, else the introspected one.
\* makeRequest starts with getConfig().
NoSchema == [loaded |-> FALSE]

SchemaLoaded ==
    IF cachedSchema.loaded THEN cachedSchema
    ELSE IF ~getConfig.ok THEN NoSchema
    ELSE [loaded |-> TRUE, queries |-> api.queries, mutations |-> api.mutations]

getSchema ==
    IF cachedSchema.loaded THEN [ok |-> TRUE, val |-> cachedSchema]
    ELSE IF ~getConfig.ok THEN getConfig
    ELSE [ok |-> TRUE, val |-> SchemaLoaded]

\* the process-wide config after a call that went through getSchema()
ConfigAfterGetSchema == IF cachedSchema.loaded THEN config ELSE ConfigLoaded

Defined(defs, name) == \E i \in 1..Len(defs) : defs[i].name = name
Definition(defs, name) == defs[CHOOSE i \in 1..Len(defs) : defs[i].name = name]

\* the statements after `const schema = getSchema()`
getQueryDefinition_In(schema, query) ==
    IF ~schema.ok THEN schema
    ELSE IF ~Defined(schema.val.queries, query)
    THEN Throw("Query does not exist", query)
    ELSE [ok |-> TRUE, val |-> Definition(schema.val.queries, query)]

getQueryDefinition(query) == getQueryDefinition_In(getSchema, query)

getMutationDefinition_In(schema, mutation) ==
    IF ~schema.ok THEN schema
    ELSE IF ~Defined(schema.val.mutations, mutation)
    THEN Throw("Mutation does not exist", mutation)
    ELSE [ok |-> TRUE, val |-> Definition(schema.val.mutations, mutation)]

getMutationDefinition(mutation) == getMutationDefinition_In(getSchema, mutation)

-----------------------------------------------------------------------------
(* Action module contents *)

\* What a call has computed when it returns or throws: the local variables of
\* the content functions (got: which of them were assigned), the mapped
\* identifier code of the generated perform function, the files written.
Outcome(call, action, operation) ==
    [ call |-> call, action |-> action, operation |-> operation,
      ok |-> TRUE, msg |-> "", arg |-> "", key |-> <<>>,
      got |-> {},
      noun |-> Null, isList |-> FALSE,
      inputFields |-> <<>>, outputFields |-> <<>>, samples |-> <<>>,
      inputFieldsGQL |-> <<>>, outputFieldsGQL |-> <<>>, gql |-> <<>>,
      idSource |-> NoName, reshape |-> "", returns |-> "",
      inputSamples |-> <<>>,
      sample |-> NoText, inputData |-> NoText,
      wrote |-> {}, registered |-> FALSE ]

Raised(o, r) == [o EXCEPT !.ok = FALSE, !.msg = r.msg, !.arg = r.arg, !.key = r.key]

\* The statements getQueryActionContent and getMutationActionContent share,
\* from `const typeDetails = getTypeDetails(definition.type)` to the idMapping
\* fragment, in order
Steps == <<"typeDetails", "inputFields", "outputFields", "samples", "inputFieldsGQL",
           "outputFieldsGQL", "gql", "idMapping">>

\* the right-hand side of statement n; o holds the locals assigned so far
ContentStep(n, queryOrMutation, operation, definition, o) ==
    CASE Steps[n] = "typeDetails" -> getTypeDetails(definition.type, NoName)
      [] Steps[n] = "inputFields" -> getInputFieldsFlattened(definition.args)
      [] Steps[n] = "outputFields" -> getOutputFields(o.noun, FALSE)
      [] Steps[n] = "samples" -> createSamples(o.outputFields)
      [] Steps[n] = "inputFieldsGQL" -> getInputFields(definition.args, TRUE, <<>>)
      [] Steps[n] = "outputFieldsGQL" -> getOutputFields(o.noun, TRUE)
      [] Steps[n] = "gql" ->
             buildGQL(queryOrMutation, operation, o.inputFieldsGQL, o.outputFieldsGQL)
      [] Steps[n] = "idMapping" ->
             \* response.data.data.<op> = response.data.data.<op>.map(r => ({...r, id: r.<source>}))
             [ok |-> TRUE, mapped |-> Mapped(Cfg.idMap, o.noun),
              val |-> IF Mapped(Cfg.idMap, o.noun) THEN Cfg.idMap[o.noun] ELSE NoName]

\* the assignment of statement n, r being its right-hand side
ContentAssign(n, o, r) ==
    CASE Steps[n] = "typeDetails" ->
             [o EXCEPT !.got = @ \cup {"typeDetails"}, !.noun = r.type, !.isList = r.isList]
      [] Steps[n] = "inputFields" ->
             [o EXCEPT !.got = @ \cup {"inputFields"}, !.inputFields = r.val]
      [] Steps[n] = "outputFields" ->
             [o EXCEPT !.got = @ \cup {"outputFields"}, !.outputFields = r.val]
      [] Steps[n] = "samples" ->
             [o EXCEPT !.got = @ \cup {"samples"}, !.samples = r.val]
      [] Steps[n] = "inputFieldsGQL" ->
             [o EXCEPT !.got = @ \cup {"inputFieldsGQL"}, !.inputFieldsGQL = r.val]
      [] Steps[n] = "outputFieldsGQL" ->
             [o EXCEPT !.got = @ \cup {"outputFieldsGQL"}, !.outputFieldsGQL = r.val]
      [] Steps[n] = "gql" ->
             [o EXCEPT !.got = @ \cup {"gql"}, !.gql = r.val]
      [] Steps[n] = "idMapping" ->
             IF r.mapped
             THEN [o EXCEPT !.got = @ \cup {"idMapping"}, !.idSource = r.val, !.reshape = "map"]
             ELSE o

RECURSIVE ContentSteps(_, _, _, _, _), ContentSteps_Assign(_, _, _, _, _, _)

\* statement n threw, or it is assigned and the next statement runs
ContentSteps_Assign(n, queryOrMutation, operation, definition, o, r) ==
    IF ~r.ok THEN Raised(o, r)
    ELSE ContentSteps(n + 1, queryOrMutation, operation, definition, ContentAssign(n, o, r))

\* the statements from the n-th on
ContentSteps(n, queryOrMutation, operation, definition, o) ==
    IF n > Len(Steps) THEN o
    ELSE ContentSteps_Assign(n, queryOrMutation, operation, definition, o,
             ContentStep(n, queryOrMutation, operation, definition, o))

\* the template literal: `sample: ${stringifyObject(samples, 6)}` and
\* return response.data.data.<q>  or  [response.data.data.<q>]
getQueryActionContent_Return(c) ==
    IF ~c.ok THEN c
    ELSE [c EXCEPT !.sample = stringifyObject(Obj(c.samples), 6),
                   !.returns = IF c.isList THEN "asIs" ELSE "inArray"]

\* the statements after `const definition = getQueryDefinition(query)`
getQueryActionContent_Of(o, query, definition) ==
    IF ~definition.ok THEN Raised(o, definition)
    ELSE getQueryActionContent_Return(ContentSteps(1, "query", query, definition.val, o))

\* getQueryActionContent(action, query)
getQueryActionContent(action, query) ==
    IF action \notin {"trigger", "search"}
    THEN Raised(Outcome("getQueryActionContent", action, query),
                Throw("Must be 'trigger' or 'search', not", action))
    ELSE getQueryActionContent_Of(Outcome("getQueryActionContent", action, query), query,
                                  getQueryDefinition(query))

\* the template literal: `sample: ${stringifyObject(samples, 6)}` and
\* return response.data.data.<m>   ("This should return a single object")
getMutationActionContent_Return(c) ==
    IF ~c.ok THEN c
    ELSE [c EXCEPT !.sample = stringifyObject(Obj(c.samples), 6), !.returns = "asIs"]

\* the statements after `const definition = getMutationDefinition(mutation)`
getMutationActionContent_Of(o, mutation, definition) ==
    IF ~definition.ok THEN Raised(o, definition)
    ELSE getMutationActionContent_Return(
             ContentSteps(1, "mutation", mutation, definition.val, o))

\* getMutationActionContent(mutation)
getMutationActionContent(mutation) ==
    getMutationActionContent_Of(Outcome("getMutationActionContent", "create", mutation),
                                mutation, getMutationDefinition(mutation))

-----------------------------------------------------------------------------
(* Scaffolding: the files written and the entry file *)

\* inflection.pluralize(action)
pluralize(action) ==
    CASE action = "trigger" -> "triggers"
      [] action = "search" -> "searches"
      [] action = "create" -> "creates"

\* inflection.dasherize(inflection.underscore(name)) for the operation names
\* of the schemas under analysis
dasherize(name) == IF name = "addUser" THEN "add-user" ELSE name

\* <cwd>/<directory>/<file>
ActionFile(action, name) == <<pluralize(action), dasherize(name), ".js">>
TestFile(action, name) == <<"test", pluralize(action), dasherize(name), ".test.js">>

\* fs.writeFileSync(file, contents) on the files fs
writeFileSync(fs, file, contents) == (file :> contents) @@ fs

NoFiles == [file \in {} |-> <<>>]

\* fs.writeFileSync(file, contents) of createActionFile
createActionFile_Write(fs, file, contents) ==
    IF ~contents.ok THEN [fs |-> fs, o |-> contents]
    ELSE [fs |-> writeFileSync(fs, file, [contents EXCEPT !.call = "contents"]),
          o |-> [contents EXCEPT !.wrote = @ \cup {file}]]

\* the statements after `const definition = ...`
createActionFile_Of(action, operation, fs, o, definition) ==
    IF ~definition.ok THEN [fs |-> fs, o |-> Raised(o, definition)]
    ELSE createActionFile_Write(fs, ActionFile(action, definition.val.name),
             IF action = "create" THEN getMutationActionContent(operation)
             ELSE getQueryActionContent(action, operation))

\* createActionFile(action, operation), the files on disk being fs: what it
\* leaves on disk, and the content outcome in o
createActionFile(action, operation, fs) ==
    IF action \notin {"trigger", "search", "create"}
    THEN [fs |-> fs,
          o |-> Raised(Outcome("createActionFile", action, operation),
                       Throw("Must be 'trigger', 'search', or 'create', not", action))]
    ELSE createActionFile_Of(action, operation, fs,
             Outcome("createActionFile", action, operation),
             IF action = "create" THEN getMutationDefinition(operation)
             ELSE getQueryDefinition(operation))

\* fs.writeFileSync(file, contents) of createTestFile
createTestFile_Write(action, operation, fs, o, file, samples) ==
    IF ~samples.ok THEN [fs |-> fs, o |-> Raised(o, samples)]
    ELSE [fs |-> writeFileSync(fs, file,
                     [Outcome("test", action, operation)
                         EXCEPT !.inputSamples = samples.val,
                                !.inputData = JSON_stringify(Obj(samples.val))]),
          o |-> [o EXCEPT !.inputSamples = samples.val,
                          !.inputData = JSON_stringify(Obj(samples.val)),
                          !.wrote = @ \cup {file}]]

\* the statements after `const inputFields = getInputFieldsFlattened(definition.args)`
createTestFile_Samples(action, operation, fs, o, file, inputFields) ==
    IF ~inputFields.ok THEN [fs |-> fs, o |-> Raised(o, inputFields)]
    ELSE createTestFile_Write(action, operation, fs, o, file, createSamples(inputFields.val))

\* the statements after `const definition = ...`
createTestFile_Of(action, operation, fs, o, definition) ==
    IF ~definition.ok THEN [fs |-> fs, o |-> Raised(o, definition)]
    ELSE createTestFile_Samples(action, operation, fs, o,
             TestFile(action, definition.val.name),
             getInputFieldsFlattened(definition.val.args))

\* createTestFile(action, operation) continuing the request whose outcome so
\* far is o
createTestFile(action, operation, fs, o) ==
    IF action \notin {"trigger", "search", "create"}
    THEN [fs |-> fs, o |-> Raised(o, Throw("Must be 'trigger', 'search', or 'create', not", action))]
    ELSE createTestFile_Of(action, operation, fs, o,
             IF action = "create" THEN getMutationDefinition(operation)
             ELSE getQueryDefinition(operation))

\* zapierApp.<actions>: the operations the entry file registers, in order
Registered(action) ==
    CASE action = "trigger" -> entry.triggers
      [] action = "search" -> entry.searches
      [] action = "create" -> entry.creates

IsRegistered(action, operation) ==
    \E i \in 1..Len(Registered(action)) : Registered(action)[i] = operation

\* updateEntryFile(...) of zapier-platform-cli registering the operation
updateEntryFile(action, operation) ==
    CASE action = "trigger" -> [entry EXCEPT !.triggers = Append(@, operation)]
      [] action = "search" -> [entry EXCEPT !.searches = Append(@, operation)]
      [] action = "create" -> [entry EXCEPT !.creates = Append(@, operation)]

\* The statements addTriggerQuery, addSearchQuery and addCreateMutation
\* share, from createActionFile on; entryWritable: whether updateEntryFile
\* succeeds
Scaffold_Register(call, action, operation, entryWritable, tested) ==
    IF ~tested.o.ok
    THEN [fs |-> tested.fs, entry |-> entry, o |-> [tested.o EXCEPT !.call = call]]
    ELSE IF ~entryWritable
    THEN [fs |-> tested.fs, entry |-> entry,
          o |-> [Raised(tested.o, Throw("updateEntryFile", "index.js")) EXCEPT !.call = call]]
    ELSE [fs |-> tested.fs, entry |-> updateEntryFile(action, operation),
          o |-> [tested.o EXCEPT !.call = call, !.registered = TRUE]]

Scaffold_Test(call, action, operation, entryWritable, made) ==
    IF ~made.o.ok
    THEN [fs |-> made.fs, entry |-> entry, o |-> [made.o EXCEPT !.call = call]]
    ELSE Scaffold_Register(call, action, operation, entryWritable,
             createTestFile(action, operation, made.fs, made.o))

Scaffold(call, action, operation, entryWritable) ==
    Scaffold_Test(call, action, operation, entryWritable,
                  createActionFile(action, operation, files))

Skipped(call, action, operation) ==
    [fs |-> files, entry |-> entry,
     o |-> [Outcome(call, action, operation) EXCEPT !.msg = "already configured"]]

addTriggerQuery(query, entryWritable) ==
    IF IsRegistered("trigger", query) THEN Skipped("addTriggerQuery", "trigger", query)
    ELSE Scaffold("addTriggerQuery", "trigger", query, entryWritable)

\* Variant that scaffolds a search whatever the number of arguments
addSearchQuery_Unchecked(query, entryWritable, o, definition) ==
    IF ~definition.ok THEN [fs |-> files, entry |-> entry, o |-> Raised(o, definition)]
    ELSE Scaffold("addSearchQuery", "search", query, entryWritable)

\* the statements after `const definition = getQueryDefinition(query)`
addSearchQuery_Of(query, entryWritable, o, definition) ==
    IF ~definition.ok THEN [fs |-> files, entry |-> entry, o |-> Raised(o, definition)]
    ELSE IF Len(definition.val.args) = 0
    THEN [fs |-> files, entry |-> entry,
          o |-> Raised(o, Throw("Unable to add search query. It must have at least one argument.", query))]
    ELSE Scaffold("addSearchQuery", "search", query, entryWritable)

addSearchQuery(query, entryWritable) ==
    IF IsRegistered("search", query) THEN Skipped("addSearchQuery", "search", query)
    ELSE addSearchQuery_Of(query, entryWritable, Outcome("addSearchQuery", "search", query),
                           getQueryDefinition(query))

addCreateMutation(mutation, entryWritable) ==
    IF IsRegistered("create", mutation) THEN Skipped("addCreateMutation", "create", mutation)
    ELSE Scaffold("addCreateMutation", "create", mutation, entryWritable)

\* the three for loops of updateConfiguredOperations: todo lists the
\* registered <<action, key>> pairs still to regenerate
RECURSIVE UpdateEach(_, _, _), UpdateEach_Made(_, _, _)
UpdateEach_Made(todo, o, made) ==
    IF ~made.o.ok
    THEN [fs |-> made.fs, entry |-> entry,
          o |-> [Raised(o, made.o) EXCEPT !.action = todo[1][1], !.operation = todo[1][2]]]
    ELSE UpdateEach(Tail(todo), made.fs, [o EXCEPT !.wrote = @ \cup made.o.wrote])

UpdateEach(todo, fs, o) ==
    IF todo = <<>> THEN [fs |-> fs, entry |-> entry, o |-> o]
    ELSE UpdateEach_Made(todo, o, createActionFile(todo[1][1], todo[1][2], fs))

updateConfiguredOperations ==
    UpdateEach([i \in 1..Len(entry.triggers) |-> <<"trigger", entry.triggers[i]>>]
                   \o [i \in 1..Len(entry.searches) |-> <<"search", entry.searches[i]>>]
                   \o [i \in 1..Len(entry.creates) |-> <<"create", entry.creates[i]>>],
               files, Outcome("updateConfiguredOperations", "", ""))

\* removeAllZapierFiles(): the six directories hold every generated file
removeAllZapierFiles ==
    [fs |-> NoFiles, entry |-> entry, o |-> Outcome("removeAllZapierFiles", "", "")]

-----------------------------------------------------------------------------
(* lib/index.js, the file the package's main names: createSamples and
   createQueryFile *)

k_exact == <<"e", "x", "a", "c", "t">>
k_startingWith == <<"s", "t", "a", "r", "t", "i", "n", "g", "W", "i", "t", "h">>
k_endingWith == <<"e", "n", "d", "i", "n", "g", "W", "i", "t", "h">>

\* getConfig().sampleFieldValues[field.key]: an own property of the
\* sampleFieldValues object
OwnSampleFieldValue(sampleFieldValues, key) ==
    CASE key = k_exact -> Obj(sampleFieldValues.exact)
      [] key = k_startingWith -> Obj(sampleFieldValues.startingWith)
      [] key = k_endingWith -> Obj(sampleFieldValues.endingWith)
      [] OTHER -> JSNull

\* new Date().toISOString() at clock reading t
toISOString(t) == CASE t = 0 -> "T0" [] t = 1 -> "T1" [] t = 2 -> "T2" [] OTHER -> "T3"

RECURSIVE createSamples_Lib(_), getSampleValue_Lib(_), SampleEach_Lib(_, _),
          SampleEach_LibConfigured(_, _, _), SampleEach_LibAssign(_, _, _),
          SampleEach_LibMatched(_, _), SampleEach_LibDefault(_, _, _)

\* getSampleValue(field): the datetime default is the time of the call
getSampleValue_Lib(field) ==
    IF Len(field.children) > 0
    THEN getSampleValue_Object(createSamples_Lib(field.children))
    ELSE CASE field.type = "string" ->
                  [ok |-> TRUE,
                   val |-> IF field.key = k_id THEN Val("string", "1")
                           ELSE Val("string", "Something")]
           [] field.type = "number" -> [ok |-> TRUE, val |-> Val("number", "1")]
           [] field.type = "integer" -> [ok |-> TRUE, val |-> Val("number", "1")]
           [] field.type = "boolean" -> [ok |-> TRUE, val |-> Val("boolean", "true")]
           [] field.type = "datetime" ->
                  [ok |-> TRUE, val |-> Val("string", toISOString(now))]
           [] OTHER -> ThrowKey("Unable to create sample data for", field.key)

\* samples[field.key] = getSampleValue(field)
SampleEach_LibDefault(fields, samples, v) ==
    IF ~v.ok THEN v
    ELSE SampleEach_Lib(Tail(fields), Put(samples, Head(fields).key, v.val))

\* if (samples[field.key]) continue
SampleEach_LibMatched(fields, samples) ==
    IF Truthy(Get(samples, Head(fields).key)) THEN SampleEach_Lib(Tail(fields), samples)
    ELSE SampleEach_LibDefault(fields, samples, getSampleValue_Lib(Head(fields)))

\* the two forEach loops: every matching entry is assigned to
\* samples[field.key], so the last one assigned stays
SampleEach_LibAssign(fields, samples, value) ==
    SampleEach_LibMatched(fields,
        IF value = JSNull THEN samples ELSE Put(samples, Head(fields).key, value))

\* the lookups in the configured sampleFieldValues
SampleEach_LibConfigured(fields, samples, sampleFieldValues) ==
    IF Truthy(OwnSampleFieldValue(sampleFieldValues, Head(fields).key))
    THEN SampleEach_Lib(Tail(fields),
             Put(samples, Head(fields).key,
                 OwnSampleFieldValue(sampleFieldValues, Head(fields).key)))
    ELSE SampleEach_LibAssign(fields, samples,
             LastSuffix(sampleFieldValues.endingWith, Head(fields).key,
                        LastPrefix(sampleFieldValues.startingWith, Head(fields).key, JSNull)))

\* the for loop of createSamples
SampleEach_Lib(fields, samples) ==
    IF fields = <<>> THEN [ok |-> TRUE, val |-> samples]
    ELSE IF Len(Head(fields).choices) > 0
    THEN SampleEach_Lib(Tail(fields),
                        Put(samples, Head(fields).key, Val("string", Head(fields).choices[1])))
    ELSE SampleEach_LibConfigured(fields, samples, Cfg.sampleFieldValues)

createSamples_Lib(fields) == SampleEach_Lib(fields, <<>>)

\* getTypeDetailsWithChildren(outerType, fieldName) of lib/index.js: every
\* field of an object or input type is expanded, whatever the depth.  frames
\* counts the calls of it on the stack; the engine raises a RangeError when
\* they exceed what the stack holds.
\* calls of one function the engine's stack holds
MaxStack == 6

RECURSIVE getTypeDetailsWithChildren_Lib(_, _, _), ExpandChildren_Lib(_, _, _, _),
          ExpandChildren_LibSet(_, _, _, _, _), getTypeDetailsWithChildren_LibOf(_, _, _)

\* children[f[0]] = r
ExpandChildren_LibSet(fields, fieldName, frames, children, r) ==
    IF ~r.ok THEN r
    ELSE ExpandChildren_Lib(Tail(fields), fieldName, frames, Put(children, Head(fields).name, r))

\* fields.forEach((f) => {...})
ExpandChildren_Lib(fields, fieldName, frames, children) ==
    IF fields = <<>> THEN [ok |-> TRUE, val |-> children]
    ELSE ExpandChildren_LibSet(fields, fieldName, frames, children,
             getTypeDetailsWithChildren_Lib(Head(fields).type, fieldName, frames + 1))

\* the statements after `let typeDetails = getTypeDetails(outerType, fieldName)`
getTypeDetailsWithChildren_LibOf(typeDetails, fieldName, frames) ==
    IF ~typeDetails.ok THEN typeDetails
    ELSE IF instanceof(typeDetails.type, "OBJECT") \/ instanceof(typeDetails.type, "INPUT_OBJECT")
    THEN getTypeDetailsWithChildren_Children(typeDetails,
             ExpandChildren_Lib(api.types[typeDetails.type].fields, fieldName, frames, <<>>))
    ELSE typeDetails

getTypeDetailsWithChildren_Lib(outerType, fieldName, frames) ==
    IF frames > MaxStack
    THEN Throw("Maximum call stack size exceeded", outerType.name)
    ELSE getTypeDetailsWithChildren_LibOf(getTypeDetails(outerType, fieldName), fieldName, frames)

\* <cwd>/graphql/query/<file>
QueryFile(name) == <<"graphql", "query", dasherize(name), ".js">>

\* The statements of createQueryFile from `const typeDetails = ...` to the
\* idMapping fragment.  But for createSamples they read as the statements of
\* getQueryActionContent do, and for an operation without arguments so do the
\* functions they call (getInputFields returns [] before it reaches
\* getTypeDetailsWithChildren, and buildGQL never calls buildGQLField).
createQueryFile_Step(n, query, definition, o) ==
    IF Steps[n] = "samples" THEN createSamples_Lib(o.outputFields)
    ELSE ContentStep(n, "query", query, definition, o)

RECURSIVE createQueryFile_Steps(_, _, _, _), createQueryFile_Assign(_, _, _, _, _)

createQueryFile_Assign(n, query, definition, o, r) ==
    IF ~r.ok THEN Raised(o, r)
    ELSE createQueryFile_Steps(n + 1, query, definition, ContentAssign(n, o, r))

createQueryFile_Steps(n, query, definition, o) ==
    IF n > Len(Steps) THEN o
    ELSE createQueryFile_Assign(n, query, definition, o,
             createQueryFile_Step(n, query, definition, o))

\* fs.writeFileSync(`${process.cwd()}/graphql/query/${filename}`, output)
createQueryFile_Write(fs, file, output) ==
    IF ~output.ok THEN [fs |-> fs, o |-> output]
    ELSE [fs |-> writeFileSync(fs, file, [output EXCEPT !.call = "contents"]),
          o |-> [output EXCEPT !.wrote = @ \cup {file}]]

\* the statements after `const definition = await getQueryDefinition(query)`
createQueryFile_Of(query, fs, o, definition) ==
    IF ~definition.ok THEN [fs |-> fs, o |-> Raised(o, definition)]
    ELSE createQueryFile_Write(fs, QueryFile(definition.val.name),
             getQueryActionContent_Return(
                 createQueryFile_Steps(1, query, definition.val, o)))

\* createQueryFile(query), the files on disk being fs
createQueryFile(query, fs) ==
    createQueryFile_Of(query, fs, Outcome("createQueryFile", "", query),
                       getQueryDefinition(query))

-----------------------------------------------------------------------------
(* The generated perform function, executed on the platform *)

\* A record of the server's answer: one value per selected field
Record(n, keys) == [i \in 1..Len(keys) |-> [k |-> keys[i], val |-> Val("data", <<n, keys[i]>>)]]

\* response.data.data.<operation>: an array of records or one record
Response(isArray, records) == [isArray |-> isArray, records |-> records]

NotRun == [done |-> FALSE, ok |-> TRUE, msg |-> "", response |-> Response(FALSE, <<>>),
           value |-> Response(FALSE, <<>>)]

\* response.data.data.<op>.map(r => ({...r, id: r.<source>}))
reshape(source, data) ==
    IF ~data.isArray
    THEN [ok |-> FALSE, msg |-> "map is not a function"]
    ELSE [ok |-> TRUE,
          val |-> Response(TRUE, [i \in 1..Len(data.records) |->
                                     Put(data.records[i], k_id, Get(data.records[i], source))])]

\* perform(z, bundle) of the module whose content is o, the server answering
\* with data
perform_Return(o, data, mapped) ==
    IF ~mapped.ok
    THEN [done |-> TRUE, ok |-> FALSE, msg |-> mapped.msg, response |-> data,
          value |-> Response(FALSE, <<>>)]
    ELSE [done |-> TRUE, ok |-> TRUE, msg |-> "", response |-> data,
          value |-> IF o.returns = "inArray"
                    THEN Response(TRUE, mapped.val.records)
                    ELSE mapped.val]

perform(o, data) ==
    perform_Return(o, data,
        IF o.reshape = "map" THEN reshape(o.idSource, data) ELSE [ok |-> TRUE, val |-> data])

-----------------------------------------------------------------------------
(* lib/utils/index.js *)

\* `${value}`: the text of a primitive as a string
TemplateLiteral(value) == Val("string", value.v)

\* object.dynamic = `${value}`: the property is added, or replaced
SetDynamic(object, value) == [dynamic |-> TemplateLiteral(value)] @@ object

\* Variant of the inner callback that also visits the children of a child
addDynamicDropdowns_Deep(child, key, value) ==
    [(IF child.key = key THEN SetDynamic(child, value) ELSE child) EXCEPT
        !.children = [j \in 1..Len(@) |->
                          IF @[j].key = key THEN SetDynamic(@[j], value) ELSE @[j]]]

\* inputField.children.map((child) => {...})
addDynamicDropdowns_Child(child, key, value) ==
    IF child.key = key THEN SetDynamic(child, value) ELSE child

\* the children of inputField visited, when it has any
addDynamicDropdowns_Children(inputField, key, value) ==
    IF Len(inputField.children) > 0
    THEN [inputField EXCEPT
              !.children = [j \in 1..Len(@) |-> addDynamicDropdowns_Child(@[j], key, value)]]
    ELSE inputField

\* inputFields.map((inputField) => {...})
addDynamicDropdowns_Field(inputField, key, value) ==
    addDynamicDropdowns_Children(
        IF inputField.key = key THEN SetDynamic(inputField, value) ELSE inputField,
        key, value)

\* addDynamicDropdowns(inputFields, triggerMapping): the fields are changed
\* in place and the same array is returned
RECURSIVE addDynamicDropdowns(_, _)
addDynamicDropdowns(inputFields, triggerMapping) ==
    IF triggerMapping = <<>> THEN inputFields
    ELSE addDynamicDropdowns(
             [i \in 1..Len(inputFields) |->
                  addDynamicDropdowns_Field(inputFields[i], Head(triggerMapping).k,
                                            Head(triggerMapping).val)],
             Tail(triggerMapping))

-----------------------------------------------------------------------------
(* The default configuration file *)

\* Text is a sequence of characters; the placeholder of the sample template
\* is kept as one element.
Placeholder_urlEnvVar == "{{urlEnvVar}}"

\* etc/.zapiergraphql.sample, the line that holds the placeholder
SampleTemplate == <<"u", ":", "'", Placeholder_urlEnvVar, "'", ",">>

\* an argument that is not given
Undefined == <<"<undefined>">>

\* GetSubstitution of String.prototype.replace for a string pattern (no
\* capture groups): $$ is a dollar, $& the match, $` the text before the
\* match, $' the text after it; any other character stands for itself
RECURSIVE GetSubstitution(_, _, _, _)
GetSubstitution(matched, before, after, replacement) ==
    IF replacement = <<>> THEN <<>>
    ELSE IF Len(replacement) >= 2 /\ replacement[1] = "$"
                                  /\ replacement[2] \in {"$", "&", "`", "'"}
    THEN (CASE replacement[2] = "$" -> <<"$">>
            [] replacement[2] = "&" -> matched
            [] replacement[2] = "`" -> before
            [] replacement[2] = "'" -> after)
         \o GetSubstitution(matched, before, after, Tail(Tail(replacement)))
    ELSE <<replacement[1]>> \o GetSubstitution(matched, before, after, Tail(replacement))

\* str.replace(searchValue, replaceValue): the first occurrence only
replace(str, searchValue, replaceValue) ==
    IF \A i \in 1..Len(str) : str[i] # searchValue THEN str
    ELSE LET i == CHOOSE j \in 1..Len(str) :
                      str[j] = searchValue /\ \A n \in 1..(j - 1) : str[n] # searchValue
         IN SubSeq(str, 1, i - 1)
            \o GetSubstitution(<<searchValue>>, SubSeq(str, 1, i - 1),
                               SubSeq(str, i + 1, Len(str)), replaceValue)
            \o SubSeq(str, i + 1, Len(str))

ConfigPath == <<".zapiergraphql">>
ZapierAppRc == <<".zapierapprc">>

\* what createDefaultConfigFile has done when it returns or throws
ConfigOutcome(urlEnvVar, ok, msg, file, contents, wrote) ==
    [call |-> "createDefaultConfigFile", urlEnvVar |-> urlEnvVar, ok |-> ok, msg |-> msg,
     file |-> file, contents |-> contents, wrote |-> wrote]

\* the statements from `const zapierConfigFile = ...` on: .zapierapprc is
\* read, parsed and written back with '.zapiergraphql' in includeInBuild
createDefaultConfigFile_Rc(urlEnvVar, fs, contents) ==
    IF ZapierAppRc \notin DOMAIN fs
    THEN [fs |-> fs,
          o |-> ConfigOutcome(urlEnvVar, FALSE, "ENOENT: no such file or directory", <<>>,
                              <<>>, {ConfigPath})]
    ELSE IF ~fs[ZapierAppRc].json
    THEN [fs |-> fs,
          o |-> ConfigOutcome(urlEnvVar, FALSE, "Unexpected token", <<>>, <<>>, {ConfigPath})]
    ELSE [fs |-> writeFileSync(fs, ZapierAppRc,
                     [fs[ZapierAppRc] EXCEPT !.includeInBuild = Append(@, ".zapiergraphql")]),
          o |-> ConfigOutcome(urlEnvVar, TRUE, "", ConfigPath, contents,
                              {ConfigPath, ZapierAppRc})]

\* the statements after the try block
createDefaultConfigFile_Write(urlEnvVar, fs, contents) ==
    IF contents = <<>>
    THEN [fs |-> fs,
          o |-> ConfigOutcome(urlEnvVar, FALSE, "Unable to create config file", <<>>, <<>>, {})]
    ELSE createDefaultConfigFile_Rc(urlEnvVar, writeFileSync(fs, ConfigPath, contents),
                                    contents)

\* createDefaultConfigFile(urlEnvVar), the files on disk being fs
createDefaultConfigFile(urlEnvVar, fs) ==
    IF urlEnvVar \in {Undefined, <<>>}
    THEN [fs |-> fs,
          o |-> ConfigOutcome(urlEnvVar, FALSE, "Missing URL environment variable parameter",
                              <<>>, <<>>, {})]
    ELSE createDefaultConfigFile_Write(urlEnvVar, fs,
             replace(SampleTemplate, Placeholder_urlEnvVar, urlEnvVar))

-----------------------------------------------------------------------------
(* Bounds and the inputs the specifications draw from *)

MaxArgs == 2      \* arguments an operation declares
MaxNow == 2       \* calls made in one run
MaxRecords == 1   \* records in a list answer

\* The record a project's ./.zapiergraphql exports
ConfigFile(urlEnvVar, idMap, sortFields, sampleFieldValues) ==
    [ exists |-> TRUE,
      request |-> [urlEnvVar |-> urlEnvVar],
      scalarMap |-> [Boolean |-> "boolean", DateTime |-> "datetime", Float |-> "number",
                     ID |-> "string", Int |-> "integer", String |-> "string"],
      idMap |-> idMap,
      sortFields |-> sortFields,
      sampleFieldValues |-> sampleFieldValues,
      testBundle |-> <<>> ]

NoIdMap == [n \in {} |-> <<>>]
IdMaps == {NoIdMap, [Usr |-> k_ab, Dragon |-> k_b]}

Entry(k, v) == [k |-> k, val |-> Val("string", v)]

NoSampleFieldValues == [exact |-> <<>>, startingWith |-> <<>>, endingWith |-> <<>>]

\* configured sample values: exact (spelled as the field is, or with an upper
\* case letter), prefixes (one spelled in upper case), suffixes; the key 'c'
\* of each strategy matches the enum field of Dragon
SampleFieldValues ==
    { [exact |-> e, startingWith |-> p, endingWith |-> q] :
        e \in {<<>>, <<Entry(k_ab, "exact ab"), Entry(k_c, "exact c")>>,
                <<Entry(k_Ab, "exact Ab")>>},
        p \in {<<>>, <<Entry(<<"A">>, "starts a"), Entry(k_ab, "starts ab"),
                       Entry(k_c, "starts c")>>},
        q \in {<<>>, <<Entry(k_b, "ends b"), Entry(k_c, "ends c")>>} }

\* Type positions: a named type, bare or wrapped
ArgTypes ==
    { T(<<>>, n) : n \in {"String", "ID", "Odd", "Color", "DateTime", "Leaf", "Geo", "Addr",
                          "User", "Org", "Cyc", "Hub", "Top", "Bad", "Exo"} }
    \cup { T(w, n) : w \in {<<N>>, <<L, N>>}, n \in {"ID", "Color", "User"} }
MoreArgTypes == {T(<<N>>, "Addr")}
ArgNames == <<k_b, k_a, k_id>>

ReturnTypes ==
    { T(w, n) : w \in {<<>>, <<N, L, N>>},
                n \in {"Dragon", "Usr", "Rel", "Odds", "Exotic", "String", "ID", "Color",
                       "Odd", "Pet"} }

\* Argument lists: the first argument of any type, the later ones of a few
ArgLists ==
    UNION { { [i \in 1..n |-> [name |-> ArgNames[i], type |-> t[i], isRequired |-> FALSE]] :
                t \in { u \in [1..n -> ArgTypes \cup MoreArgTypes] :
                          \A i \in 2..n : u[i] \in MoreArgTypes } } :
            n \in 0..MaxArgs }

SimpleArgLists == { args \in ArgLists : Len(args) = 0 \/ (Len(args) = 1 /\ args[1].type = T(<<N>>, "ID")) }
SimpleReturnTypes == {T(<<>>, "Usr")}

\* An operation definition
Definition_Of(args, type) == [name |-> "op", args |-> args, type |-> type]

-----------------------------------------------------------------------------
(* The core: the content functions applied to a drawn schema and configuration *)

\* The configuration and the operation a run is given.  Pairwise: every
\* argument list with a plain return type under both sort settings (the
\* argument side reads no other directive), every return type with a plain
\* argument list under every id map and sort setting, and every set of sample
\* values with every bare return type (samples are made of output fields).
FullIdMap == [Usr |-> k_ab, Dragon |-> k_b]

CoreInputs ==
    { <<ConfigFile("GRAPHQL_URL", FullIdMap, sf, NoSampleFieldValues), Definition_Of(args, t)>> :
          sf \in BOOLEAN, args \in ArgLists, t \in SimpleReturnTypes }
    \cup { <<ConfigFile("GRAPHQL_URL", m, sf, NoSampleFieldValues), Definition_Of(args, t)>> :
              m \in IdMaps, sf \in BOOLEAN, args \in SimpleArgLists, t \in ReturnTypes }
    \cup { <<ConfigFile("GRAPHQL_URL", FullIdMap, TRUE, sv), Definition_Of(<<>>, t)>> :
              sv \in SampleFieldValues, t \in { u \in ReturnTypes : u.wraps = <<>> } }

Untouched == Outcome("none", "", "")

\* an entry file that registers nothing yet
NoEntries == [triggers |-> <<>>, searches |-> <<>>, creates |-> <<>>]

InitCore ==
    /\ \E input \in CoreInputs :
           /\ cfgFile = input[1]
           /\ api = [types |-> Types, queries |-> <<input[2]>>, mutations |-> <<input[2]>>]
    /\ config = NoConfig
    /\ cachedSchema = NoSchema
    /\ entry = NoEntries
    /\ files = NoFiles
    /\ last = Untouched
    /\ prev = Untouched
    /\ ran = NotRun
    /\ now = 0

GetQueryActionContent(action, query) ==
    /\ now < MaxNow
    /\ last' = getQueryActionContent(action, query)
    /\ prev' = last
    /\ config' = ConfigAfterGetSchema
    /\ cachedSchema' = SchemaLoaded
    /\ ran' = NotRun
    /\ now' = now + 1
    /\ UNCHANGED <<cfgFile, api, entry, files>>

GetMutationActionContent(mutation) ==
    /\ now < MaxNow
    /\ last' = getMutationActionContent(mutation)
    /\ prev' = last
    /\ config' = ConfigAfterGetSchema
    /\ cachedSchema' = SchemaLoaded
    /\ ran' = NotRun
    /\ now' = now + 1
    /\ UNCHANGED <<cfgFile, api, entry, files>>

\* The keys the document selects
SelectedKeys(o) == [i \in 1..Len(o.outputFieldsGQL) |-> o.outputFieldsGQL[i].key]

\* What the server answers for the operation of content o: as many records as
\* its return type allows
Responses(o) ==
    IF o.isList
    THEN { Response(TRUE, [i \in 1..n |-> Record(i, SelectedKeys(o))]) : n \in 0..MaxRecords }
    ELSE { Response(FALSE, <<Record(1, SelectedKeys(o))>>) }

\* The platform runs the perform function of the module generated last
Perform ==
    /\ now < MaxNow
    /\ last.ok
    /\ last.call \in {"getQueryActionContent", "getMutationActionContent"}
    /\ \E data \in Responses(last) : ran' = perform(last, data)
    /\ now' = now + 1
    /\ UNCHANGED <<cfgFile, api, config, cachedSchema, entry, files, last, prev>>

NextCore ==
    \/ \E action \in {"trigger", "search"} : GetQueryActionContent(action, "op")
    \/ GetMutationActionContent("op")
    \/ Perform

SpecCore == InitCore /\ [][NextCore]_vars

-----------------------------------------------------------------------------
(* The command line: one scaffold, update or clean command per process *)

Arg(name, type) == [name |-> name, type |-> type, isRequired |-> FALSE]

\* Schemas: a query with one argument, a query without, a mutation; the
\* argument an input object, an input object that reaches only objects below
\* its first level, or an unmapped scalar
CliApis ==
    { [types |-> Types,
       queries |-> << [name |-> "users", args |-> <<Arg(k_b, t)>>, type |-> T(<<L>>, "Dragon")],
                      [name |-> "me", args |-> <<>>, type |-> T(<<>>, "Usr")] >>,
       mutations |-> << [name |-> "addUser", args |-> <<Arg(k_b, t)>>, type |-> T(<<>>, "Usr")] >>] :
        t \in {T(<<N>>, "User"), T(<<>>, "Top"), T(<<>>, "Odd")} }

\* Project configurations: complete, without request.urlEnvVar, no file
CliConfigFiles ==
    { ConfigFile("GRAPHQL_URL", [Usr |-> k_ab, Dragon |-> k_b], TRUE, NoSampleFieldValues),
      ConfigFile("", NoIdMap, FALSE, NoSampleFieldValues),
      [ConfigFile("", NoIdMap, FALSE, NoSampleFieldValues) EXCEPT !.exists = FALSE] }

\* the names given on the command line
QueryNames == {"users", "me", "nope"}
MutationNames == {"addUser", "nope"}

Init ==
    /\ cfgFile \in CliConfigFiles
    /\ api \in CliApis
    /\ config = NoConfig
    /\ cachedSchema = NoSchema
    /\ entry = NoEntries
    /\ files = NoFiles
    /\ last = Untouched
    /\ prev = Untouched
    /\ ran = NotRun
    /\ now = 0

\* A command ran to its end or to its error: what it left on disk and in the
\* entry file.  The process then exits, and its config and cachedSchema with it.
Command(done) ==
    /\ now < MaxNow
    /\ files' = done.fs
    /\ entry' = done.entry
    /\ last' = done.o
    /\ prev' = last
    /\ config' = NoConfig
    /\ cachedSchema' = NoSchema
    /\ now' = now + 1
    /\ UNCHANGED <<cfgFile, api, ran>>

AddTriggerQuery(query) == \E entryWritable \in BOOLEAN : Command(addTriggerQuery(query, entryWritable))

AddSearchQuery(query) == \E entryWritable \in BOOLEAN : Command(addSearchQuery(query, entryWritable))

AddCreateMutation(mutation) ==
    \E entryWritable \in BOOLEAN : Command(addCreateMutation(mutation, entryWritable))

UpdateConfiguredOperations == Command(updateConfiguredOperations)

RemoveAllZapierFiles == Command(removeAllZapierFiles)

Next ==
    \/ \E query \in QueryNames : AddTriggerQuery(query)
    \/ \E query \in QueryNames : AddSearchQuery(query)
    \/ \E mutation \in MutationNames : AddCreateMutation(mutation)
    \/ UpdateConfiguredOperations
    \/ RemoveAllZapierFiles

Spec == Init /\ [][Next]_vars

-----------------------------------------------------------------------------
(* lib/index.js: createQueryFile called on operations without arguments *)

\* Every configuration with every return type
LibInputs ==
    { <<ConfigFile("GRAPHQL_URL", m, sf, sv), Definition_Of(<<>>, t)>> :
          m \in IdMaps, sf \in BOOLEAN,
          sv \in SampleFieldValues \cup {NoSampleFieldValues}, t \in ReturnTypes }

InitLib ==
    /\ \E input \in LibInputs :
           /\ cfgFile = input[1]
           /\ api = [types |-> Types, queries |-> <<input[2]>>, mutations |-> <<input[2]>>]
    /\ config = NoConfig
    /\ cachedSchema = NoSchema
    /\ entry = NoEntries
    /\ files = NoFiles
    /\ last = Untouched
    /\ prev = Untouched
    /\ ran = NotRun
    /\ now = 0

Created(made) ==
    /\ files' = made.fs
    /\ last' = made.o
    /\ prev' = last

CreateQueryFile(query) ==
    /\ now < MaxNow
    /\ Created(createQueryFile(query, files))
    /\ config' = ConfigAfterGetSchema
    /\ cachedSchema' = SchemaLoaded
    /\ now' = now + 1
    /\ UNCHANGED <<cfgFile, api, entry, ran>>

NextLib == CreateQueryFile("op")

SpecLib == InitLib /\ [][NextLib]_vars

-----------------------------------------------------------------------------
(* The type resolvers applied to the type positions of the schema *)

\* an object that is no wrapper and has no name: unwrapping it finds no
\* named type
Unnamed == T(<<>>, Null)

\* the named types, bare and wrapped, and the unnamed one
TypePositions ==
    { T(w, n) : w \in {<<>>, <<N>>, <<L>>, <<N, L, N>>}, n \in TypeNames } \cup {Unnamed}

InitTypes ==
    /\ cfgFile \in { ConfigFile("GRAPHQL_URL", NoIdMap, sf, NoSampleFieldValues) : sf \in BOOLEAN }
    /\ api = [types |-> Types, queries |-> <<>>, mutations |-> <<>>]
    /\ config = NoConfig
    /\ cachedSchema = NoSchema
    /\ entry = NoEntries
    /\ files = NoFiles
    /\ last = Untouched
    /\ prev = Untouched
    /\ ran = NotRun
    /\ now = 0

\* a resolver was called on outerType and gave r
Resolved(call, outerType, r) ==
    /\ now < MaxNow
    /\ last' = [call |-> call, outerType |-> outerType, ok |-> r.ok, typeDetails |-> r]
    /\ config' = ConfigLoaded
    /\ now' = now + 1
    /\ UNCHANGED <<cfgFile, api, cachedSchema, entry, files, prev, ran>>

GetTypeDetails(outerType) ==
    Resolved("getTypeDetails", outerType, getTypeDetails(outerType, NoName))

GetTypeDetailsWithChildren(outerType) ==
    Resolved("getTypeDetailsWithChildren", outerType,
             getTypeDetailsWithChildren(outerType, NoName, 0))

GetTypeDetailsWithChildren_Lib(outerType) ==
    Resolved("lib/getTypeDetailsWithChildren", outerType,
             getTypeDetailsWithChildren_Lib(outerType, NoName, 1))

NextTypes ==
    \/ \E outerType \in TypePositions : GetTypeDetails(outerType)
    \/ \E outerType \in TypePositions : GetTypeDetailsWithChildren(outerType)
    \/ \E outerType \in TypePositions : GetTypeDetailsWithChildren_Lib(outerType)

SpecTypes == InitTypes /\ [][NextTypes]_vars

-----------------------------------------------------------------------------
(* The utilities applied to the inputFields of a generated module *)

\* input fields as the generated modules hold them: leaves, fields with
\* children, and a child that has children of its own
LeafField(key) == InputField(key, NoName, "string", FALSE, <<>>, <<>>)
GroupField(key, children) == InputField(key, NoName, Null, FALSE, <<>>, children)

ModuleFields ==
    { LeafField(k_a), LeafField(k_b) }
    \cup { GroupField(k, children) :
             k \in {k_x, k_a},
             children \in { <<LeafField(k_a)>>,
                            <<LeafField(k_b), LeafField(k_a)>>,
                            <<GroupField(k_b, <<LeafField(k_b), LeafField(k_a)>>),
                              LeafField(k_b)>> } }

ModuleInputFields ==
    {<<>>} \cup { <<f>> : f \in ModuleFields } \cup { <<f, g>> : f, g \in ModuleFields }

\* trigger mappings: none, one key, two keys, a key no field has, a value
\* that is not a string
TriggerMappings ==
    { <<>>,
      <<Entry(k_a, "countries.key.name")>>,
      <<Entry(k_b, "users.email.fullName")>>,
      <<Entry(k_b, "userTypes.key.name"), Entry(k_a, "countries.key")>>,
      <<Entry(k_c, "countries.key.name")>>,
      <<[k |-> k_a, val |-> Val("number", "7")]>> }

\* require('../graphql/mutation/add-user').operation.inputFields
RequireModule(inputFields) ==
    [call |-> "require", before |-> <<>>, triggerMapping |-> <<>>, inputFields |-> inputFields]

InitUtils ==
    /\ cfgFile = ConfigFile("GRAPHQL_URL", NoIdMap, FALSE, NoSampleFieldValues)
    /\ api = [types |-> Types, queries |-> <<>>, mutations |-> <<>>]
    /\ config = NoConfig
    /\ cachedSchema = NoSchema
    /\ entry = NoEntries
    /\ files = NoFiles
    /\ last \in { RequireModule(inputFields) : inputFields \in ModuleInputFields }
    /\ prev = Untouched
    /\ ran = NotRun
    /\ now = 0

\* operation.inputFields = addDynamicDropdowns(operation.inputFields, triggerMapping)
AddDynamicDropdowns(triggerMapping) ==
    /\ now < MaxNow
    /\ last' = [call |-> "addDynamicDropdowns",
                before |-> last.inputFields,
                triggerMapping |-> triggerMapping,
                inputFields |-> addDynamicDropdowns(last.inputFields, triggerMapping)]
    /\ now' = now + 1
    /\ UNCHANGED <<cfgFile, api, config, cachedSchema, entry, files, prev, ran>>

NextUtils == \E triggerMapping \in TriggerMappings : AddDynamicDropdowns(triggerMapping)

SpecUtils == InitUtils /\ [][NextUtils]_vars

-----------------------------------------------------------------------------
(* The configuration file created in a project directory *)

\* .zapierapprc: valid JSON with or without includeInBuild, or not JSON
AppRc(json, includeInBuild) == [json |-> json, includeInBuild |-> includeInBuild]

ProjectDirectories ==
    { NoFiles,
      ZapierAppRc :> AppRc(TRUE, <<>>),
      ZapierAppRc :> AppRc(TRUE, <<"lib">>),
      ZapierAppRc :> AppRc(FALSE, <<>>) }

\* the names given: none, empty, plain names, names that hold a dollar sign
UrlEnvVars ==
    { Undefined, <<>>, <<"U", "R", "L">>, <<"A", "_", "1">>, <<"K">>, <<"$", "U">>,
      <<"A", "$", "$", "B">>, <<"A", "$", "&">>, <<"$", "1">> }

InitConfig ==
    /\ cfgFile = [exists |-> FALSE]
    /\ api = [types |-> Types, queries |-> <<>>, mutations |-> <<>>]
    /\ config = NoConfig
    /\ cachedSchema = NoSchema
    /\ entry = NoEntries
    /\ files \in ProjectDirectories
    /\ last = Untouched
    /\ prev = Untouched
    /\ ran = NotRun
    /\ now = 0

CreateDefaultConfigFile(urlEnvVar) ==
    /\ now < MaxNow
    /\ files' = createDefaultConfigFile(urlEnvVar, files).fs
    /\ last' = createDefaultConfigFile(urlEnvVar, files).o
    /\ now' = now + 1
    /\ UNCHANGED <<cfgFile, api, config, cachedSchema, entry, prev, ran>>

NextConfig == \E urlEnvVar \in UrlEnvVars : CreateDefaultConfigFile(urlEnvVar)

SpecConfig == InitConfig /\ [][NextConfig]_vars

-----------------------------------------------------------------------------
(* One process that calls getConfig again after a call has raised *)

\* The configuration files a project may hold: configured or with an empty
\* request.urlEnvVar, and no file at all
ProcessConfigFiles ==
    { ConfigFile(urlEnvVar, m, sf, sv) :
          urlEnvVar \in {"", "GRAPHQL_URL"}, m \in IdMaps, sf \in BOOLEAN,
          sv \in SampleFieldValues \cup {NoSampleFieldValues} }
    \cup { [ConfigFile("", NoIdMap, FALSE, NoSampleFieldValues) EXCEPT !.exists = FALSE] }

InitProcess ==
    /\ cfgFile \in ProcessConfigFiles
    /\ api = [types |-> Types, queries |-> <<>>, mutations |-> <<>>]
    /\ config = NoConfig
    /\ cachedSchema = NoSchema
    /\ entry = NoEntries
    /\ files = NoFiles
    /\ last = Untouched
    /\ prev = Untouched
    /\ ran = NotRun
    /\ now = 0

\* getConfig() is called: what it returned or raised, and the `config` the
\* module is left with
GetConfig ==
    /\ now < MaxNow
    /\ last' = [call |-> "getConfig", ok |-> getConfig.ok,
                msg |-> IF getConfig.ok THEN "" ELSE getConfig.msg,
                val |-> IF getConfig.ok THEN getConfig.val ELSE NoConfig]
    /\ prev' = last
    /\ config' = ConfigLoaded
    /\ now' = now + 1
    /\ UNCHANGED <<cfgFile, api, cachedSchema, entry, files, ran>>

NextProcess == GetConfig

SpecProcess == InitProcess /\ [][NextProcess]_vars

-----------------------------------------------------------------------------
(* Properties of the core *)

\* the last call was a content function; it returned
Content == last.call \in {"getQueryActionContent", "getMutationActionContent"}
Returned == Content /\ last.ok

\* the definition the last content call looked up
LastDefinition ==
    IF last.call = "getMutationActionContent" THEN Definition(api.mutations, last.operation)
    ELSE Definition(api.queries, last.operation)

\* no field inside a children sequence has children
ChildrenAreLeaves(fields) ==
    \A i \in 1..Len(fields) :
        \A j \in 1..Len(fields[i].children) : Len(fields[i].children[j].children) = 0

\* C1: every field sequence the builders return (getInputFieldsFlattened,
\* getInputFields for the document, getOutputFields in both builds) has at
\* most one level of children: no field inside a children sequence has
\* children of its own.
C1_DepthBound ==
    Returned =>
        /\ ChildrenAreLeaves(last.inputFields)
        /\ ChildrenAreLeaves(last.inputFieldsGQL)
        /\ ChildrenAreLeaves(last.outputFields)
        /\ ChildrenAreLeaves(last.outputFieldsGQL)

SoleInputObjectArgument(definition) ==
    Len(definition.args) = 1 /\ instanceof(definition.args[1].type.name, "INPUT_OBJECT")

Keys(fields) == { fields[i].key : i \in 1..Len(fields) }
Names(fields) == { fields[i].name : i \in 1..Len(fields) }

\* C2: an operation whose only argument is of an input-object type gets one
\* top-level platform input field per declared field of that type, and none
\* for the argument itself.
C2_Flattening ==
    (Content /\ "inputFields" \in last.got /\ SoleInputObjectArgument(LastDefinition)) =>
        LET declared == Types[LastDefinition.args[1].type.name].fields
        IN /\ Len(last.inputFields) = Len(declared)
           /\ Keys(last.inputFields) = Names(declared)

\* a sole argument of type User was flattened into User's three fields
C2_Witness ==
    /\ Returned
    /\ SoleInputObjectArgument(LastDefinition)
    /\ LastDefinition.args[1].type.name = "User"
    /\ Keys(last.inputFields) = {k_b, k_x, k_ab}

RECURSIVE Flatten(_)
Flatten(lines) == IF lines = <<>> THEN <<>> ELSE Head(lines).toks \o Flatten(Tail(lines))

IsOpen(tok) == tok.t = "punct" /\ tok.word \in {"{", "("}
IsClose(tok) == tok.t = "punct" /\ tok.word \in {"}", ")"}
Closer(word) == IF word = "{" THEN "}" ELSE ")"

\* braces and parentheses are balanced and properly nested; stack holds the
\* closers still expected, innermost first
RECURSIVE Nested(_, _)
Nested(toks, stack) ==
    IF toks = <<>> THEN stack = <<>>
    ELSE IF IsOpen(Head(toks))
    THEN Nested(Tail(toks), <<Closer(Head(toks).word)>> \o stack)
    ELSE IF IsClose(Head(toks))
    THEN stack # <<>> /\ Head(stack) = Head(toks).word /\ Nested(Tail(toks), Tail(stack))
    ELSE Nested(Tail(toks), stack)

\* no argument list and no selection set is empty
NoEmptyGroup(toks) ==
    \A i \in 1..(Len(toks) - 1) : ~(IsOpen(toks[i]) /\ IsClose(toks[i + 1]))

\* C3: the document buildGQL returns is valid GraphQL: braces and parentheses
\* balanced and nested, no empty argument list, a selection set of at least
\* one field.
C3_ValidDocument ==
    Returned => Nested(Flatten(last.gql), <<>>) /\ NoEmptyGroup(Flatten(last.gql))

\* the configured entries whose key matches at the start / at the end of key,
\* ignoring case, by position in the configuration file
PrefixMatches(key) ==
    LET entries == cfgFile.sampleFieldValues.startingWith
    IN { i \in 1..Len(entries) : startsWith(toLowerCase(key), toLowerCase(entries[i].k)) }

SuffixMatches(key) ==
    LET entries == cfgFile.sampleFieldValues.endingWith
    IN { i \in 1..Len(entries) : endsWith(toLowerCase(key), toLowerCase(entries[i].k)) }

Min(S) == CHOOSE i \in S : \A j \in S : i <= j
Max(S) == CHOOSE i \in S : \A j \in S : i >= j

\* the default of a scalar label
TypeDefault(field) ==
    CASE field.type = "string" ->
             IF field.key = k_id THEN Val("string", "1") ELSE Val("string", "Something")
      [] field.type \in {"number", "integer"} -> Val("number", "1")
      [] field.type = "boolean" -> Val("boolean", "true")
      [] field.type = "datetime" -> Val("string", "CURRENT_TIMESTAMP")

\* the rules in the order the code applies them: choice, exact key, the
\* matching suffix configured last, the matching prefix configured last, default
SampleByCode(field) ==
    LET values == cfgFile.sampleFieldValues
    IN IF Len(field.choices) > 0 THEN Val("string", field.choices[1])
       ELSE IF HasKey(values.exact, field.key) THEN Get(values.exact, field.key)
       ELSE IF SuffixMatches(field.key) # {}
       THEN values.endingWith[Max(SuffixMatches(field.key))].val
       ELSE IF PrefixMatches(field.key) # {}
       THEN values.startingWith[Max(PrefixMatches(field.key))].val
       ELSE TypeDefault(field)

\* the rules in the order of the ordered list: choice, exact key, the
\* matching prefix configured first, the matching suffix configured first, default
SampleByList(field) ==
    LET values == cfgFile.sampleFieldValues
    IN IF Len(field.choices) > 0 THEN Val("string", field.choices[1])
       ELSE IF HasKey(values.exact, field.key) THEN Get(values.exact, field.key)
       ELSE IF PrefixMatches(field.key) # {}
       THEN values.startingWith[Min(PrefixMatches(field.key))].val
       ELSE IF SuffixMatches(field.key) # {}
       THEN values.endingWith[Min(SuffixMatches(field.key))].val
       ELSE TypeDefault(field)

Unmapped(name) == instanceof(name, "SCALAR") /\ name \notin DOMAIN cfgFile.scalarMap

\* the fields a position's innermost type declares
DeclaredFields(name) ==
    IF instanceof(name, "OBJECT") \/ instanceof(name, "INPUT_OBJECT") THEN Types[name].fields
    ELSE <<>>

\* the innermost named types of the positions a content call resolves: the
\* return type and its fields, the arguments and their fields
ResolvedNames(definition) ==
    {definition.type.name}
    \cup { DeclaredFields(definition.type.name)[j].type.name :
             j \in 1..Len(DeclaredFields(definition.type.name)) }
    \cup { definition.args[i].type.name : i \in 1..Len(definition.args) }
    \cup UNION { { DeclaredFields(definition.args[i].type.name)[j].type.name :
                     j \in 1..Len(DeclaredFields(definition.args[i].type.name)) } :
                 i \in 1..Len(definition.args) }

\* every field of the tree that lists choices has type 'string'
RECURSIVE ChoicesAreStrings(_)
ChoicesAreStrings(fields) ==
    \A i \in 1..Len(fields) :
        /\ Len(fields[i].choices) > 0 => fields[i].type = "string"
        /\ ChoicesAreStrings(fields[i].children)

ScalarResolving(field) == Types[field.type.name].kind \in {"SCALAR", "ENUM"}

ScalarNames(name) ==
    { Types[name].fields[i].name :
        i \in { j \in 1..Len(Types[name].fields) : ScalarResolving(Types[name].fields[j]) } }

\* the synthetic identifier is due: the type is in idMap and declares no
\* scalar field 'id'
SyntheticIdDue(name) == name \in DOMAIN cfgFile.idMap /\ k_id \notin ScalarNames(name)

\* C7: for an object return type getOutputFields returns one field per
\* declared field of scalar or enum type and none for the others; the
\* platform build has one more, key 'id' of type 'string', exactly when the
\* type is in idMap and has no field 'id'; the document build never has it.
C7_OutputFields ==
    (Content /\ instanceof(last.noun, "OBJECT")) =>
        LET platform == ScalarNames(last.noun)
                            \cup (IF SyntheticIdDue(last.noun) THEN {k_id} ELSE {})
        IN /\ "outputFieldsGQL" \in last.got =>
                  /\ Keys(last.outputFieldsGQL) = ScalarNames(last.noun)
                  /\ Len(last.outputFieldsGQL) = Cardinality(ScalarNames(last.noun))
           /\ "outputFields" \in last.got =>
                  /\ Keys(last.outputFields) = platform
                  /\ Len(last.outputFields) = Cardinality(platform)
                  /\ SyntheticIdDue(last.noun) =>
                         \A i \in 1..Len(last.outputFields) :
                             last.outputFields[i].key = k_id
                                 => last.outputFields[i].type = "string"

\* Usr is in idMap and has no 'id': the platform build has the synthetic
\* field, the document build has not, and the relational field x is in neither
C7_Witness ==
    /\ Returned
    /\ last.noun = "Usr"
    /\ SyntheticIdDue("Usr")
    /\ k_id \in Keys(last.outputFields)
    /\ k_id \notin Keys(last.outputFieldsGQL)
    /\ k_x \notin Keys(last.outputFields)

\* the text of a key after its last '__'
TerminalSegment(key) ==
    LET at == { i \in 1..(Len(key) - 1) : key[i] = "_" /\ key[i + 1] = "_" }
    IN IF at = {} THEN key ELSE SubSeq(key, Max(at) + 2, Len(key))

\* the fields whose Rank is 'id' first, the others after them in
\* non-decreasing order of Rank
IdFirstThenOrdered(fields, Rank(_)) ==
    \A i, j \in 1..Len(fields) :
        i < j =>
            /\ Rank(fields[j].key) = k_id => Rank(fields[i].key) = k_id
            /\ (Rank(fields[i].key) # k_id /\ Rank(fields[j].key) # k_id) =>
                   ~StrLess(Rank(fields[j].key), Rank(fields[i].key))

WholeKey(key) == key

\* the same fields, each as often
PermutationOf(s, t) ==
    /\ Len(s) = Len(t)
    /\ \A e \in { s[i] : i \in 1..Len(s) } \cup { t[i] : i \in 1..Len(t) } :
           Cardinality({ i \in 1..Len(s) : s[i] = e }) = Cardinality({ i \in 1..Len(t) : t[i] = e })

\* an input field sequence and every children sequence in it
RECURSIVE Siblings(_)
Siblings(fields) == {fields} \cup UNION { Siblings(fields[i].children) : i \in 1..Len(fields) }

EverySiblings(fields, P(_)) == \A siblings \in Siblings(fields) : P(siblings)

SortedByTerminalSegment(fields) ==
    /\ IdFirstThenOrdered(fields, TerminalSegment)
    /\ PermutationOf(sortInputFields(Reverse(fields)), fields)

SortedByTerminalSegmentIfAny(fields) ==
    /\ PermutationOf(sortInputFields(Reverse(fields)), fields)
    /\ (\A i \in 1..Len(fields) : TerminalSegment(fields[i].key) # <<>>) =>
           IdFirstThenOrdered(fields, TerminalSegment)

SortedOutputs(fields, Rank(_)) ==
    /\ IdFirstThenOrdered(fields, Rank)
    /\ PermutationOf(sortOutputFields(Reverse(fields)), fields)

Pipeline == {"getQueryActionContent", "getMutationActionContent", "createQueryFile"}
SameCall == /\ last.call \in Pipeline
            /\ prev.call = last.call
            /\ prev.action = last.action
            /\ prev.operation = last.operation

\* C10: the pipeline run twice on the same schema and configuration gives the
\* same document, the same input and output field sequences and the same
\* samples (and the same error when it raises).
C10_Idempotent == SameCall => last = prev

\* C8: when the return type is in idMap, the generated perform function
\* gives every record of the result an 'id' equal to the record's mapped
\* source field, whatever the shape of the result: each record of a list,
\* the one record of a non-list result (a mutation's result staying a single
\* object).
C8_IdMapping ==
    (ran.done /\ last.noun \in DOMAIN cfgFile.idMap) =>
        /\ ran.ok
        /\ Len(ran.value.records) = Len(ran.response.records)
        /\ \A i \in 1..Len(ran.value.records) :
               /\ HasKey(ran.value.records[i], k_id)
               /\ Get(ran.value.records[i], k_id)
                      = Get(ran.response.records[i], cfgFile.idMap[last.noun])
        /\ last.call = "getMutationActionContent" => ran.value.isArray = ran.response.isArray

-----------------------------------------------------------------------------
(* Properties of the command line *)

Scaffolding == last.call \in {"addTriggerQuery", "addSearchQuery", "addCreateMutation"}

\* C5: a scaffold request in which any step raises has written no action
\* file and no test file and has not updated the entry file.
C5_NoPartialOutput == (Scaffolding /\ ~last.ok) => (last.wrote = {} /\ ~last.registered)

-----------------------------------------------------------------------------
(* Properties of the type resolvers *)

\* the last call was a walk over the children of a type
Walked == last.call \in {"getTypeDetailsWithChildren", "lib/getTypeDetailsWithChildren"}

\* C11: on every type of the schema, the cyclic ones included, the walk of
\* getTypeDetailsWithChildren comes to an end by itself: it returns, or it
\* raises an error of its own, and it never follows a cycle of types until
\* the call stack is exhausted.
C11_WalkTerminates ==
    Walked => (last.ok \/ last.typeDetails.msg # "Maximum call stack size exceeded")

\* a resolver of the build with the depth cap returned a TypeDetails
Described == last.call \in {"getTypeDetails", "getTypeDetailsWithChildren"} /\ last.ok

\* how many of: scalarType set, children non-empty, enumValues non-empty
Settled(typeDetails) ==
    (IF typeDetails.scalarType # Null THEN 1 ELSE 0)
        + (IF Len(typeDetails.children) > 0 THEN 1 ELSE 0)
        + (IF Len(typeDetails.enumValues) > 0 THEN 1 ELSE 0)

Resolvable(name) ==
    \/ instanceof(name, "SCALAR")
    \/ instanceof(name, "ENUM")
    \/ instanceof(name, "OBJECT")
    \/ instanceof(name, "INPUT_OBJECT")

\* C12 (as claimed): a TypeDetails returned for a scalar, an enum, an object
\* or an input type has exactly one of: scalarType set, children non-empty,
\* enumValues non-empty.
C12_ExactlyOne ==
    (Described /\ Resolvable(last.typeDetails.type)) => Settled(last.typeDetails) = 1

\* C12 (as the code has it): a scalar has its mapped scalarType and nothing
\* else; an enum has both the scalarType 'string' and its value names as
\* enumValues, and no children; an object or input type has no scalarType
\* and no enumValues, and has children (one per declared field) exactly when
\* getTypeDetailsWithChildren returned it, none when getTypeDetails did.
C12_Shape ==
    Described =>
        LET typeDetails == last.typeDetails
            name == typeDetails.type
        IN /\ instanceof(name, "SCALAR") =>
                  /\ typeDetails.scalarType = Lookup(Cfg.scalarMap, name)
                  /\ typeDetails.scalarType # Null
                  /\ Settled(typeDetails) = 1
           /\ instanceof(name, "ENUM") =>
                  /\ typeDetails.scalarType = "string"
                  /\ typeDetails.enumValues = Types[name].values
                  /\ Len(typeDetails.children) = 0
                  /\ Settled(typeDetails) = 2
           /\ (instanceof(name, "OBJECT") \/ instanceof(name, "INPUT_OBJECT")) =>
                  /\ typeDetails.scalarType = Null
                  /\ Len(typeDetails.enumValues) = 0
                  /\ Len(typeDetails.children) =
                         IF last.call = "getTypeDetailsWithChildren"
                         THEN Len(Types[name].fields) ELSE 0

\* an enum was resolved behind a wrapper, and an object was expanded
C12_Witness ==
    /\ Described
    /\ \/ /\ instanceof(last.typeDetails.type, "ENUM")
          /\ last.outerType.wraps # <<>>
          /\ Settled(last.typeDetails) = 2
       \/ /\ instanceof(last.typeDetails.type, "INPUT_OBJECT")
          /\ last.call = "getTypeDetailsWithChildren"
          /\ Len(last.typeDetails.children) > 1

-----------------------------------------------------------------------------
(* Properties of the samples *)

\* the configured exact entries whose key is the field's key but for case
ExactMatches(key) ==
    LET entries == cfgFile.sampleFieldValues.exact
    IN { i \in 1..Len(entries) : toLowerCase(key) = toLowerCase(entries[i].k) }

\* C13: a field without choices whose key equals a configured exact key but
\* for case gets that entry's value; else, one whose key starts or ends with
\* a configured startingWith or endingWith key but for case gets the value of
\* such an entry.
C13_CaseInsensitive ==
    Returned =>
        \A i \in 1..Len(last.outputFields) :
            LET field == last.outputFields[i]
                values == cfgFile.sampleFieldValues
                sample == Get(last.samples, field.key)
            IN Len(field.choices) = 0 =>
                   /\ ExactMatches(field.key) # {} =>
                          sample \in { values.exact[j].val : j \in ExactMatches(field.key) }
                   /\ (ExactMatches(field.key) = {}
                          /\ PrefixMatches(field.key) \cup SuffixMatches(field.key) # {}) =>
                          sample \in { values.startingWith[j].val : j \in PrefixMatches(field.key) }
                                         \cup { values.endingWith[j].val : j \in SuffixMatches(field.key) }

\* the declared fields whose innermost type is an enum
EnumFields(declared) ==
    { i \in 1..Len(declared) : instanceof(declared[i].type.name, "ENUM") }

\* the field of the sequence that has the key
FieldAt(fields, key) == fields[CHOOSE i \in 1..Len(fields) : fields[i].key = key]

\* the built field of the key has the enum's value names as choices
HasChoicesOf(fields, key, enum) ==
    /\ key \in Keys(fields)
    /\ FieldAt(fields, key).choices = Types[enum].values

\* every enum field among the declared ones is built with its choices
EnumChoices(fields, declared) ==
    \A i \in EnumFields(declared) : HasChoicesOf(fields, declared[i].name, declared[i].type.name)

-----------------------------------------------------------------------------
(* Properties of the scaffold commands *)

\* the schema has the query and it declares no argument
ZeroArgumentQuery(query) ==
    /\ Defined(api.queries, query)
    /\ Len(Definition(api.queries, query).args) = 0

\* the project is configured: getConfig() and getSchema() succeed
Configured == cfgFile.exists /\ cfgFile.request.urlEnvVar # ""

\* C15: addSearchQuery for a query that is not registered and declares no
\* argument raises, and the step leaves the files on disk and the entry file
\* as they were and synthesizes no document; in a configured project the
\* error is the one about the missing argument, naming the query.
C15_SearchNeedsArguments ==
    [][ (/\ last'.call = "addSearchQuery"
         /\ ZeroArgumentQuery(last'.operation)
         /\ ~IsRegistered("search", last'.operation))
        => /\ ~last'.ok
           /\ files' = files
           /\ entry' = entry
           /\ last'.wrote = {}
           /\ ~last'.registered
           /\ "gql" \notin last'.got
           /\ last'.gql = <<>>
           /\ Configured =>
                  /\ last'.msg = "Unable to add search query. It must have at least one argument."
                  /\ last'.arg = last'.operation ]_vars

\* the search of a query without arguments was refused in a project that
\* already holds generated files
C15_Witness ==
    /\ last.call = "addSearchQuery"
    /\ ZeroArgumentQuery(last.operation)
    /\ ~last.ok
    /\ last.msg = "Unable to add search query. It must have at least one argument."
    /\ files # NoFiles
    /\ entry.searches = <<>>

-----------------------------------------------------------------------------
(* Properties of the synthesized document *)

\* a type position that is non-null at the top
RequiredType(type) == type.wraps # <<>> /\ Head(type.wraps) = N

\* the operation name is followed directly by the selection set, and the
\* document has no parenthesis
NoArgumentBlock ==
    /\ last.gql[2] = Line(2, <<Operation(last.operation), Punct("{")>>)
    /\ \A i \in 1..Len(Flatten(last.gql)) :
           Flatten(last.gql)[i] \notin {Punct("("), Punct(")")}

\* the operation name opens an argument block that is closed before the
\* selection set
ArgumentBlock ==
    /\ last.gql[2] = Line(2, <<Operation(last.operation), Punct("(")>>)
    /\ \E i \in 3..Len(last.gql) : last.gql[i] = Line(2, <<Punct(")"), Punct("{")>>)

-----------------------------------------------------------------------------
(* Properties of the errors *)

\* the last call was a type resolver of the core and it threw
ResolverRaised ==
    /\ last.call \in {"getTypeDetails", "getTypeDetailsWithChildren"}
    /\ ~last.ok

-----------------------------------------------------------------------------
(* Properties of the generated text *)

\* some value of the rendered text is the string literal 'CURRENT_TIMESTAMP'
RECURSIVE HoldsSentinel(_)
HoldsSentinel(text) ==
    \/ text = Rendered("string", "CURRENT_TIMESTAMP", <<>>)
    \/ \E i \in 1..Len(text.sub) : HoldsSentinel(text.sub[i].val)

\* some value of the rendered text is the current-timestamp expression
RECURSIVE HoldsTimestamp(_)
HoldsTimestamp(text) ==
    \/ text = Rendered("expression", "new Date().toISOString()", <<>>)
    \/ \E i \in 1..Len(text.sub) : HoldsTimestamp(text.sub[i].val)

\* some value of the sample data is the sentinel
RECURSIVE HasDatetimeDefault(_)
HasDatetimeDefault(samples) ==
    \E i \in 1..Len(samples) :
        \/ samples[i].val = Val("string", "CURRENT_TIMESTAMP")
        \/ HasDatetimeDefault(samples[i].val.sub)

\* C18: no generated file holds the literal string CURRENT_TIMESTAMP as a
\* value, neither in the sample of an action module nor in the inputData of
\* a test file; sample data with a datetime default is rendered with the
\* current-timestamp expression.
C18_SentinelExpanded ==
    \A file \in DOMAIN files :
        /\ ~HoldsSentinel(files[file].sample)
        /\ ~HoldsSentinel(files[file].inputData)
        /\ HasDatetimeDefault(files[file].samples) => HoldsTimestamp(files[file].sample)
        /\ HasDatetimeDefault(files[file].inputSamples) => HoldsTimestamp(files[file].inputData)

\* the file is the test file of an (action, operation) pair
IsTestFile(file) == file = TestFile(files[file].action, files[file].operation)

\* C19: a test file that is on disk is not written again: no step of a
\* scaffold command or of update writes a test file that an earlier command
\* wrote.
C19_TestFileWrittenOnce ==
    [][ \A file \in DOMAIN files : IsTestFile(file) => file \notin last'.wrote ]_vars

-----------------------------------------------------------------------------
(* Properties of the utilities *)

\* field.dynamic, undefined when the field has no such property
Dynamic(field) == IF "dynamic" \in DOMAIN field THEN field.dynamic ELSE JSNull

\* the properties of a field other than dynamic and children
OtherProperties(field) == [p \in DOMAIN field \ {"dynamic", "children"} |-> field[p]]

\* after is before with dynamic set to the mapped string when its key is a
\* key of the mapping, and nothing else changed at its own level
DropdownSet(before, after, triggerMapping) ==
    /\ OtherProperties(after) = OtherProperties(before)
    /\ Len(after.children) = Len(before.children)
    /\ IF HasKey(triggerMapping, before.key)
       THEN /\ Dynamic(after).t = "string"
            /\ Dynamic(after).v = Get(triggerMapping, before.key).v
       ELSE /\ Dynamic(after) = Dynamic(before)
            /\ DOMAIN after = DOMAIN before

\* C20: addDynamicDropdowns returns the same fields in the same order and
\* number; a top-level field or a direct child whose key is a key of
\* triggerMapping has dynamic set to the mapped string, every other property
\* of every field is kept, fields whose key is not in the mapping keep all
\* their properties, and what lies below the direct children is untouched.
C20_DynamicDropdowns ==
    last.call = "addDynamicDropdowns" =>
        /\ Len(last.inputFields) = Len(last.before)
        /\ \A i \in 1..Len(last.before) :
               /\ DropdownSet(last.before[i], last.inputFields[i], last.triggerMapping)
               /\ \A j \in 1..Len(last.before[i].children) :
                      /\ DropdownSet(last.before[i].children[j],
                                     last.inputFields[i].children[j], last.triggerMapping)
                      /\ last.inputFields[i].children[j].children
                             = last.before[i].children[j].children

\* a call whose mapping named a top-level field, a direct child, a field
\* below a direct child, and left another field alone
C20_Witness ==
    /\ last.call = "addDynamicDropdowns"
    /\ \E i \in 1..Len(last.before) :
           /\ HasKey(last.triggerMapping, last.before[i].key)
           /\ Dynamic(last.inputFields[i]) # JSNull
    /\ \E i \in 1..Len(last.before) : \E j \in 1..Len(last.before[i].children) :
           /\ HasKey(last.triggerMapping, last.before[i].children[j].key)
           /\ Dynamic(last.inputFields[i].children[j]) # JSNull
           /\ \E n \in 1..Len(last.before[i].children[j].children) :
                  /\ HasKey(last.triggerMapping, last.before[i].children[j].children[n].key)
                  /\ Dynamic(last.inputFields[i].children[j].children[n]) = JSNull
    /\ \E i \in 1..Len(last.before) :
           /\ ~HasKey(last.triggerMapping, last.before[i].key)
           /\ last.inputFields[i] = last.before[i]

-----------------------------------------------------------------------------
(* Properties of the default configuration file *)

\* text holds part as a contiguous run
Contains(text, part) ==
    \E i \in 0..(Len(text) - Len(part)) : SubSeq(text, i + 1, i + Len(part)) = part

\* the template with the placeholder replaced by the name as it is given
Substituted(template, name) ==
    LET i == CHOOSE j \in 1..Len(template) : template[j] = Placeholder_urlEnvVar
    IN SubSeq(template, 1, i - 1) \o name \o SubSeq(template, i + 1, Len(template))

\* C21: createDefaultConfigFile with a missing or empty urlEnvVar raises and
\* writes no file; with a non-empty one, what it returns is a path whose
\* basename is '.zapiergraphql' and the sample template with the placeholder
\* replaced by the given name, so that the contents contain the name.
C21_DefaultConfigFile ==
    last.call = "createDefaultConfigFile" =>
        IF last.urlEnvVar \in {Undefined, <<>>}
        THEN ~last.ok /\ last.wrote = {}
        ELSE last.ok =>
                 /\ last.file[Len(last.file)] = ".zapiergraphql"
                 /\ last.contents = Substituted(SampleTemplate, last.urlEnvVar)
                 /\ Contains(last.contents, last.urlEnvVar)
                 /\ files[ConfigPath] = last.contents

-----------------------------------------------------------------------------
(* Properties of the descriptor tree *)

\* C22: in the tree getTypeDetailsWithChildren returns when called at depth
\* 0, only the root has children: every child descriptor has empty children,
\* whatever its type.
C22_OneLevel ==
    (last.call = "getTypeDetailsWithChildren" /\ last.ok) =>
        \A i \in 1..Len(last.typeDetails.children) :
            last.typeDetails.children[i].val.children = <<>>

\* the declared type has the wrapper at some layer
HasWrapper(type, wrapper) == \E i \in 1..Len(type.wraps) : type.wraps[i] = wrapper

\* the descriptor reports the wrappers and the innermost name of the type
Reports(typeDetails, type) ==
    /\ typeDetails.isList = HasWrapper(type, L)
    /\ typeDetails.isRequired = HasWrapper(type, N)
    /\ typeDetails.typeName = type.name

\* C23: the descriptor getTypeDetails returns for a type, and each child
\* descriptor getTypeDetailsWithChildren builds for a declared field, has
\* isList true exactly when the declared type has a List wrapper at some
\* layer, isRequired true exactly when it has a NonNull wrapper at some
\* layer, and typeName the name of the innermost named type.
C23_WrappersReported ==
    Described =>
        /\ Reports(last.typeDetails, last.outerType)
        /\ \A j \in 1..Len(last.typeDetails.children) :
               Reports(last.typeDetails.children[j].val,
                       Types[last.typeDetails.type].fields[j].type)

-----------------------------------------------------------------------------
(* Properties of the argument block *)

\* the declared argument or field called name
Named(declared, name) ==
    declared[CHOOSE i \in 1..Len(declared) : declared[i].name = name]

\* some line of the document is `<name>: ${quote(inputData.<path>)}`, with
\* the ' ?? null' default exactly when the declared type has no NonNull layer
RendersLeaf(name, path, type) ==
    \E i \in 1..Len(last.gql) :
        last.gql[i].toks = <<Name(name), Punct(":"), Placeholder(path, ~HasWrapper(type, N))>>

\* the leaves among the fields built for `declared`, each with the keys of
\* its ancestors (outermost first) and its declared type
RECURSIVE Leaves(_, _, _)
Leaves(fields, declared, ancestors) ==
    UNION { IF Len(fields[i].children) = 0
            THEN { [field |-> fields[i], ancestors |-> ancestors,
                    type |-> Named(declared, fields[i].field).type] }
            ELSE Leaves(fields[i].children,
                        Types[Named(declared, fields[i].field).type.name].fields,
                        Append(ancestors, fields[i].key)) :
            i \in 1..Len(fields) }

\* C24: every leaf of the argument block renders as its field name and a
\* lookup in inputData; the lookup has the ' ?? null' default exactly when
\* the field is not required, that is when no layer of its declared type is
\* non-null; its path is the key of the leaf, prefixed by the key of its
\* immediate parent only when the leaf lies more than one level deep.
C24_LeafRendering ==
    Returned =>
        \A leaf \in Leaves(last.inputFieldsGQL, LastDefinition.args, <<>>) :
            /\ leaf.field.required = HasWrapper(leaf.type, N)
            /\ RendersLeaf(leaf.field.field,
                           IF Len(leaf.ancestors) > 1
                           THEN <<leaf.ancestors[Len(leaf.ancestors)], leaf.field.key>>
                           ELSE <<leaf.field.key>>,
                           leaf.type)

\* a document with a required leaf below a parent, an optional leaf, and a
\* leaf more than one level deep
C24_Witness ==
    /\ Returned
    /\ \E leaf \in Leaves(last.inputFieldsGQL, LastDefinition.args, <<>>) :
           Len(leaf.ancestors) > 1 /\ leaf.field.required
    /\ \E leaf \in Leaves(last.inputFieldsGQL, LastDefinition.args, <<>>) :
           Len(leaf.ancestors) = 1 /\ ~leaf.field.required
    /\ \E leaf \in Leaves(last.inputFieldsGQL, LastDefinition.args, <<>>) :
           Len(leaf.ancestors) = 0

-----------------------------------------------------------------------------
(* Properties of the keys *)

\* the keys of a sequence of fields are pairwise distinct
DistinctKeys(fields) ==
    \A i, j \in 1..Len(fields) : i # j => fields[i].key # fields[j].key

\* the keys are distinct in the sequence and in every children sequence
RECURSIVE DistinctSiblings(_)
DistinctSiblings(fields) ==
    /\ DistinctKeys(fields)
    /\ \A i \in 1..Len(fields) : DistinctSiblings(fields[i].children)

\* C25: in every sibling sequence the builders return (the top-level
\* sequences of getInputFieldsFlattened and getInputFields, each children
\* sequence, the getOutputFields results) the keys are pairwise distinct.
C25_DistinctSiblingKeys ==
    Content =>
        /\ DistinctSiblings(last.inputFields)
        /\ DistinctSiblings(last.inputFieldsGQL)
        /\ DistinctKeys(last.outputFields)
        /\ DistinctKeys(last.outputFieldsGQL)

\* a module whose type is in the id map and got the synthetic 'id' among
\* several output fields, and whose input fields have a children sequence of
\* several fields
C25_Witness ==
    /\ Returned
    /\ Mapped(Cfg.idMap, last.noun)
    /\ \E i \in 1..Len(last.outputFields) : last.outputFields[i].key = k_id
    /\ Len(last.outputFields) > 2
    /\ \E i \in 1..Len(last.inputFieldsGQL) : Len(last.inputFieldsGQL[i].children) > 1

-----------------------------------------------------------------------------
(* Properties of the lookups *)

\* inputData.<path> is defined in the object `data`
RECURSIVE Resolves(_, _)
Resolves(data, path) ==
    /\ path # <<>>
    /\ HasKey(data, Head(path))
    /\ \/ Len(path) = 1
       \/ Resolves(Get(data, Head(path)).sub, Tail(path))

\* the paths the placeholders of the document look up
LookupPaths ==
    { tok.path : tok \in { tok \in UNION { { last.gql[i].toks[n] : n \in 1..Len(last.gql[i].toks) } :
                                            i \in 1..Len(last.gql) } :
                              tok.t = "placeholder" } }

\* C26: every inputData path a placeholder of the document looks up is
\* defined in the sample input data made of the flattened input fields of
\* the same arguments, for operations with one argument and with several.
C26_LookupsResolve ==
    (Returned /\ createSamples(last.inputFields).ok) =>
        \A path \in LookupPaths : Resolves(createSamples(last.inputFields).val, path)

-----------------------------------------------------------------------------
(* Properties of the input fields *)

\* the type labels createSamples has a sample for
SampleTypes == {"string", "number", "integer", "boolean", "datetime"}

\* every field, at every level, has a scalar type label or children
RECURSIVE TypedOrParent(_)
TypedOrParent(fields) ==
    \A i \in 1..Len(fields) :
        \/ fields[i].children = <<>> /\ fields[i].type \in SampleTypes
        \/ fields[i].children # <<>> /\ TypedOrParent(fields[i].children)

\* C27: every input field the builder returns, flattened or not and at every
\* level, has a scalar type label or a non-empty children sequence, and so
\* createSamples of the builder's own fields does not raise the
\* unsupported-sample-type error.
C27_TypedOrParent ==
    Returned =>
        /\ TypedOrParent(last.inputFields)
        /\ TypedOrParent(last.inputFieldsGQL)
        /\ \/ createSamples(last.inputFields).ok
           \/ createSamples(last.inputFields).msg # "Unable to create sample data for"

-----------------------------------------------------------------------------
(* Properties of the selection set *)

\* the names the selection set of the document lists
SelectionNames ==
    { last.gql[i].toks[1].name :
        i \in { i \in 1..Len(last.gql) :
                  Len(last.gql[i].toks) = 1 /\ last.gql[i].toks[1].t = "name" } }

\* the names of the fields the schema declares on the type `name`
DeclaredNames(name) ==
    { DeclaredFields(name)[i].name : i \in 1..Len(DeclaredFields(name)) }

\* C28: every name in the selection set of the document is a field the schema
\* declares on the operation's return type; neither the mapped 'id' nor the
\* key that stands for a scalar or enum return value is sent.
C28_SelectionDeclared ==
    Returned => SelectionNames \subseteq DeclaredNames(LastDefinition.type.name)

-----------------------------------------------------------------------------
(* Properties of the keys *)

\* the keys of a tree of fields: every field's key, then its children's
RECURSIVE TreeKeys(_)
TreeKeys(fields) ==
    IF fields = <<>> THEN <<>>
    ELSE <<Head(fields).key>> \o TreeKeys(Head(fields).children) \o TreeKeys(Tail(fields))

\* C29: the keys of the flattened input fields, the top-level fields together
\* with all their children, are pairwise distinct, whatever the number of
\* arguments.
C29_DistinctTreeKeys ==
    Returned =>
        \A i, j \in 1..Len(TreeKeys(last.inputFields)) :
            i # j => TreeKeys(last.inputFields)[i] # TreeKeys(last.inputFields)[j]

-----------------------------------------------------------------------------
(* Properties of the cached configuration *)

NotConfigured == "GraphQL service not configured"

\* C30: in one process, every getConfig call raises or returns a
\* configuration whose request.urlEnvVar is non-empty, and a call that
\* follows one rejected as not configured does not return.
C30_RejectedStaysRejected ==
    last.call = "getConfig" =>
        /\ last.ok => last.val.request.urlEnvVar # ""
        /\ (prev.call = "getConfig" /\ ~prev.ok /\ prev.msg = NotConfigured) => ~last.ok

=============================================================================
